---- MODULE Spec2Model ----
(***************************************************************************)
(* A model of the blog generator's rendering core:                         *)
(*   - the token overlay highlighter (tree_sitter.ts): highlight,          *)
(*     add_spans, add_spans_console, parse_highlight_spec, parse_callouts; *)
(*   - the djot render visitor (djot.ts): render and its overrides,        *)
(*     estimate_reading_time, build_table_contents;                        *)
(*   - main.ts: build, collect_posts, update_file, main and watch.         *)
(* Strings that the code scans character by character are sequences of    *)
(* one-character strings; offsets are JavaScript's zero-based offsets.     *)
(***************************************************************************)
EXTENDS Integers, Sequences, FiniteSets, TLC

VARIABLES
    initialized,     \* tree_sitter.ts: let initialized
    parsers,         \* tree_sitter.ts: the languages with a parser and a query
    hl_pc,           \* position inside highlight()
    source,          \* highlight's argument
    language,        \* highlight's argument
    highlight_spec,  \* highlight's argument
    spec,            \* const spec = parse_highlight_spec(highlight_spec)
    src,             \* the text after parse_callouts
    callouts,        \* the Map line -> digits of parse_callouts
    branch,          \* the return statement of add_spans that was taken
    tokens,          \* the sorted tokens of the grammar path
    highlighted,     \* let highlighted
    lines,           \* const lines: the wrapped lines, joined
    result,          \* what highlight returned (or the error it raised)
    render_pc,       \* djot.ts: whether render is idle, running, returned or raised
    doc,             \* render's argument: the children and the footnotes of the Doc
    ctx,             \* render's argument: the RenderCtx
    section,         \* let section
    documentSideNotes, \* let documentSideNotes
    footnoteIndex,   \* r.footnoteIndex of the HTMLRenderer of the pass
    stack,           \* the calls of renderAstNode to come and the handlers to resume
    written,         \* the HTML written so far, in pieces
    sites,           \* history: the footnote references visited, with the index used
    rendered,        \* what render returned
    build_pc,        \* main.ts: the position inside build()
    clean,           \* build's argument
    posts_dir,       \* contents/posts: the documents of the .dj files, in walk order
    pages_dir,       \* contents/<page>.dj: the document of every page
    posts,           \* collect_posts: const posts, by output path
    cursor,          \* the index of the loop build or collect_posts is in
    dist,            \* ./dist: the state of every output file
    temp,            \* the file of Deno.makeTempFile under ./dist/tmp
    uf_pc,           \* the position inside update_file()
    uf_path,         \* update_file's argument path
    returned,        \* history: the output paths whose render has returned
    reading_doc,     \* estimate_reading_time's argument
    reading_counts,  \* estimate_reading_time: words, images, code_blocks
    reading_mins,    \* what estimate_reading_time returned
    toc_pc,          \* djot.ts: the position inside build_table_contents()
    toc_doc,         \* build_table_contents's argument
    toc_stack,       \* the calls of visit to come
    headings,        \* build_table_contents: const headings
    main_pc,         \* main.ts: the position inside main()
    command,         \* cli.command
    loop_pc,         \* watch: the position of the async rebuild loop
    signal,          \* watch: the promise of let signal: pending or resolved with a value
    timer,           \* watch: whether the timer of rebuild_debounced is set
    watcher,         \* watch: the iterator of Deno.watchFs
    fs_events,       \* history: the events Deno.watchFs has yielded
    running,         \* history: the calls of build that have not come to an end
    build_id,        \* watch: let build_id
    hl_calls,        \* history: the calls of highlight by the build that runs
    observed,        \* history: the values of initialized that getParser has read
    owed,            \* history: a debounced callback has fired and no build has started since
    allowed          \* history: the builds asked for when Deno.watchFs ended

hl_vars == <<initialized, parsers, hl_pc, source, language, highlight_spec, spec,
             src, callouts, branch, tokens, highlighted, lines, result>>

render_vars == <<render_pc, doc, ctx, section, documentSideNotes, footnoteIndex, stack,
                 written, sites, rendered>>

build_vars == <<build_pc, clean, posts_dir, pages_dir, posts, cursor, dist, temp, uf_pc,
                uf_path, returned>>

reading_vars == <<reading_doc, reading_counts, reading_mins>>

toc_vars == <<toc_pc, toc_doc, toc_stack, headings>>

main_vars == <<main_pc, command, loop_pc, signal, timer, watcher, fs_events, running,
               build_id, hl_calls, observed, owed, allowed>>

vars == <<hl_vars, render_vars, build_vars, reading_vars, toc_vars, main_vars>>

\* What the steps of one part of the program leave alone.
outside_hl == <<render_vars, build_vars, reading_vars, toc_vars, main_vars>>
outside_render == <<hl_vars, build_vars, reading_vars, toc_vars, main_vars>>
outside_build == <<hl_vars, render_vars, reading_vars, toc_vars, main_vars>>
outside_reading == <<hl_vars, render_vars, build_vars, toc_vars, main_vars>>
outside_main == <<render_vars, build_vars, reading_vars, toc_vars>>
outside_toc == <<hl_vars, render_vars, build_vars, reading_vars, main_vars>>

----------------------------------------------------------------------------
(* Bounds of the model. *)

\* The longest source text handed to highlight, in characters.
MaxLen == 3
\* The most captures the grammar's query returns for one source text.
MaxCaptures == 2

----------------------------------------------------------------------------
(* JavaScript string primitives, on sequences of characters. *)

Min(a, b) == IF a < b THEN a ELSE b
Max(a, b) == IF a < b THEN b ELSE a

\* String.prototype.slice(a, b) for 0 <= a, b: the characters a .. b-1.
Slice(s, a, b) == SubSeq(s, Min(a, Len(s)) + 1, Min(b, Len(s)))

\* String.prototype.slice(a).
SliceFrom(s, a) == Slice(s, a, Len(s))

StartsWith(s, p) == Len(p) <= Len(s) /\ SubSeq(s, 1, Len(p)) = p

EndsWith(s, p) == Len(p) <= Len(s) /\ SubSeq(s, Len(s) - Len(p) + 1, Len(s)) = p

\* StartsWith at the zero-based offset i.
MatchAt(s, i, p) == i + Len(p) <= Len(s) /\ SubSeq(s, i + 1, i + Len(p)) = p

\* The least and the greatest member of a non-empty set of numbers.
Least(S) == CHOOSE x \in S : \A y \in S : x <= y
Greatest(S) == CHOOSE x \in S : \A y \in S : y <= x

RECURSIVE ConcatRange(_, _, _)
ConcatRange(ss, lo, hi) ==
    IF lo > hi THEN <<>>
    ELSE IF lo = hi THEN ss[lo]
    ELSE LET mid == (lo + hi) \div 2
         IN ConcatRange(ss, lo, mid) \o ConcatRange(ss, mid + 1, hi)

\* Array.prototype.join("").
Concat(ss) == ConcatRange(ss, 1, Len(ss))

\* Array.prototype.join(sep).
Join(ss, sep) ==
    IF Len(ss) = 0 THEN <<>>
    ELSE Concat([i \in 1..(2 * Len(ss) - 1) |-> IF i % 2 = 1 THEN ss[(i + 1) \div 2] ELSE sep])

\* String.prototype.split(c) for a one-character separator: the pieces
\* between the occurrences of c, so that "" splits to [""].
Split(s, c) ==
    LET at == {i \in 1..Len(s) : s[i] = c}
        nth(k) == CHOOSE i \in at : Cardinality({j \in at : j < i}) = k - 1
    IN [k \in 1..(Cardinality(at) + 1) |->
          SubSeq(s, IF k = 1 THEN 1 ELSE nth(k - 1) + 1,
                    IF k = Cardinality(at) + 1 THEN Len(s) ELSE nth(k) - 1)]

\* The white space of the model's alphabet.
IsSpace(c) == c \in {" ", "\n", "\t"}

\* String.prototype.trimEnd.
TrimEnd(s) ==
    LET solid == {i \in 1..Len(s) : ~IsSpace(s[i])}
    IN IF solid = {} THEN <<>> ELSE SubSeq(s, 1, Greatest(solid))

\* String.prototype.trimStart.
TrimStart(s) ==
    LET solid == {i \in 1..Len(s) : ~IsSpace(s[i])}
    IN IF solid = {} THEN <<>> ELSE SubSeq(s, Least(solid), Len(s))

\* String.prototype.replace(/c/g, rep) for a one-character pattern.
ReplaceChar(s, c, rep) ==
    Concat([i \in 1..Len(s) |-> IF s[i] = c THEN rep ELSE <<s[i]>>])

\* String.prototype.repeat.
Repeat(s, n) == Concat([i \in 1..n |-> s])

Digits == {"0", "1", "2", "3", "4", "5", "6", "7", "8", "9"}

\* The lower-case letters, of which the name of a scheme is made.
Letters ==
    {"a", "b", "c", "d", "e", "f", "g", "h", "i", "j", "k", "l", "m", "n", "o", "p", "q", "r",
     "s", "t", "u", "v", "w", "x", "y", "z"}

DigitValue(c) ==
    CASE c = "0" -> 0 [] c = "1" -> 1 [] c = "2" -> 2 [] c = "3" -> 3 [] c = "4" -> 4
      [] c = "5" -> 5 [] c = "6" -> 6 [] c = "7" -> 7 [] c = "8" -> 8 [] c = "9" -> 9

----------------------------------------------------------------------------
(* escapeHtml and the html template tag. *)

\* tree_sitter.ts escapeHtml: five replacements, the ampersand first.
EscapeHtml(text) ==
    ReplaceChar(ReplaceChar(ReplaceChar(ReplaceChar(ReplaceChar(text,
        "&", <<"&", "a", "m", "p", ";">>),
        "<", <<"&", "l", "t", ";">>),
        ">", <<"&", "g", "t", ";">>),
        "\"", <<"&", "q", "u", "o", "t", ";">>),
        "'", <<"&", "#", "0", "3", "9", ";">>)

\* tsx.ts escapeHtml, which the html tag applies to every value that is not an
\* HtmlString. tsx.ts is not among the sources; it is taken to escape the same
\* five characters.
TsxEscapeHtml(text) == EscapeHtml(text)

\* A value interpolated into an html template: an HtmlString or a plain string.
HtmlValue(v) == [is_html |-> TRUE, value |-> v]
PlainValue(v) == [is_html |-> FALSE, value |-> v]

\* templates.tsx html(): content(value). An HtmlString contributes its value,
\* any other value is escaped.
Content(v) == IF v.is_html THEN v.value ELSE TsxEscapeHtml(v.value)

\* templates.tsx html() with one interpolated value: String.raw over the
\* template's cooked strings, so the template's own line breaks and
\* indentation are part of the result.
Html(before, v, after) == before \o Content(v) \o after

Spaces(n) == Repeat(<<" ">>, n)

----------------------------------------------------------------------------
(* parse_highlight_spec *)

NaN == [nan |-> TRUE, huge |-> FALSE, v |-> 0]
Num(n) == [nan |-> FALSE, huge |-> FALSE, v |-> n]
\* A numeral of more than nine digits is not held as a value (TLC's integers
\* have 32 bits); the inputs of the model give such a numeral eleven digits or
\* more, so that it stands for a number of at least 10^10.
Huge == [nan |-> FALSE, huge |-> TRUE, v |-> 0]

\* The longest prefix of digits.
DigitPrefix(s) ==
    LET other == {i \in 1..Len(s) : s[i] \notin Digits}
    IN IF other = {} THEN s ELSE SubSeq(s, 1, Least(other) - 1)

RECURSIVE DecimalValue(_, _)
DecimalValue(ds, acc) ==
    IF ds = <<>> THEN acc ELSE DecimalValue(Tail(ds), 10 * acc + DigitValue(Head(ds)))

\* parseInt(s, 10): leading white space is skipped, the longest prefix of
\* digits is the value, and no digit at all gives NaN.
ParseInt(s) ==
    LET ds == DigitPrefix(TrimStart(s)) IN
    IF ds = <<>> THEN NaN
    ELSE IF Len(ds) > 9 THEN Huge
    ELSE Num(DecimalValue(ds, 0))

\* Array.from({ length: (hi - lo) + 1 }, (_x, i) => lo + i). A NaN or negative
\* length is length 0; a length of 2^32 or more raises RangeError (Invalid
\* array length), which is the case of a Huge hi over a lo that is a value.
RangeElements(lo, hi) ==
    IF lo.nan \/ hi.nan THEN [raised |-> FALSE, els |-> <<>>]
    ELSE IF hi.huge /\ ~lo.huge THEN [raised |-> TRUE, els |-> <<>>]
    ELSE IF lo.huge THEN [raised |-> FALSE, els |-> <<>>]
    ELSE [raised |-> FALSE, els |-> [i \in 1..Max(0, (hi.v - lo.v) + 1) |-> Num(lo.v + (i - 1))]]

\* The callback of flatMap in parse_highlight_spec, for one element.
ElementLines(el) ==
    IF \E i \in 1..Len(el) : el[i] = "-"
    THEN LET parts == Split(el, "-") IN RangeElements(ParseInt(parts[1]), ParseInt(parts[2]))
    ELSE [raised |-> FALSE, els |-> <<ParseInt(el)>>]

RECURSIVE FlatMapLines(_)
FlatMapLines(els) ==
    IF els = <<>> THEN [raised |-> FALSE, els |-> <<>>]
    ELSE LET h == ElementLines(Head(els))
             t == FlatMapLines(Tail(els))
         IN [raised |-> h.raised \/ t.raised, els |-> h.els \o t.els]

\* parse_highlight_spec(spec): [raised, els], els the array of line numbers.
parse_highlight_spec(hs) ==
    IF ~hs.defined \/ hs.value = <<>> THEN [raised |-> FALSE, els |-> <<>>]
    ELSE FlatMapLines(Split(hs.value, ","))

\* spec.includes(n) for a line number n.
Includes(els, n) == \E i \in 1..Len(els) : ~els[i].nan /\ ~els[i].huge /\ els[i].v = n

----------------------------------------------------------------------------
(* parse_callouts *)

\* A match of <(\d)> at the zero-based offset i.
MarkerAt(s, i) ==
    i + 3 <= Len(s) /\ s[i + 1] = "<" /\ s[i + 2] \in Digits /\ s[i + 3] = ">"

RECURSIVE CalloutScan(_, _, _, _, _)
\* source.replace(/<(\d)>|\n/g, ...): one left-to-right pass, from offset i,
\* from match to match; a match is searched from the end of the one before.
CalloutScan(s, i, line, text, res) ==
    LET found == {j \in i..(Len(s) - 1) : MarkerAt(s, j) \/ s[j + 1] = "\n"}
    IN IF found = {} THEN [text |-> text \o SliceFrom(s, i), res |-> res]
       ELSE LET j == Least(found)
                skipped == text \o Slice(s, i, j)
            IN IF s[j + 1] = "\n"
               THEN CalloutScan(s, j + 1, line + 1, Append(skipped, "\n"), res)
               ELSE CalloutScan(s, j + 3, line, skipped,
                                [res EXCEPT ![line] = Append(res[line], s[j + 2])])

\* parse_callouts(source): text is without_callouts; res maps each zero-based
\* line index to its digits (the empty sequence where the Map has no entry).
parse_callouts(s) == CalloutScan(s, 0, 0, <<>>, [l \in 0..Len(s) |-> <<>>])

----------------------------------------------------------------------------
(* add_spans: the plain paths and the console path. *)

CloseSpan == <<"<", "/", "s", "p", "a", "n", ">">>

\* `<span class="${cls}">`
OpenSpan(cls) ==
    <<"<", "s", "p", "a", "n", " ", "c", "l", "a", "s", "s", "=", "\"">> \o cls \o <<"\"", ">">>

\* The template of add_spans' first return: html`⏎      ${escapeHtml(source)}⏎    `.
PlainTemplate(s) ==
    Html(<<"\n">> \o Spaces(6), PlainValue(EscapeHtml(s)), <<"\n">> \o Spaces(4))

\* The template of the return taken when getParser finds no grammar.
NoGrammarTemplate(s) ==
    Html(<<"\n">> \o Spaces(8), PlainValue(EscapeHtml(s)), <<"\n">> \o Spaces(6))

\* The template of the catch block's return.
CatchTemplate(s) ==
    Html(<<"\n">> \o Spaces(6), PlainValue(EscapeHtml(s)), <<"\n">> \o Spaces(4))

\* The two characters the templates' \\n cooks to: a backslash and an n.
BackslashN == <<"\\", "n">>

HlTitle ==
    <<"<", "s", "p", "a", "n", " ", "c", "l", "a", "s", "s", "=", "\"", "h", "l", "-",
      "t", "i", "t", "l", "e", " ", "f", "u", "n", "c", "t", "i", "o", "n", "_", "\"", ">",
      "$", "<", "/", "s", "p", "a", "n", ">", " ">>
HlComment ==
    <<"<", "s", "p", "a", "n", " ", "c", "l", "a", "s", "s", "=", "\"", "h", "l", "-",
      "c", "o", "m", "m", "e", "n", "t", "\"", ">">>
HlOutput ==
    <<"<", "s", "p", "a", "n", " ", "c", "l", "a", "s", "s", "=", "\"", "h", "l", "-",
      "o", "u", "t", "p", "u", "t", "\"", ">">>

\* The callback of map in add_spans_console for one line, given cont:
\* [html, cont], the line's HtmlString and cont after the line.
ConsoleLine(line, cont) ==
    IF cont
    THEN [html |-> Html(<<"\n">> \o Spaces(8), PlainValue(line),
                        BackslashN \o <<"\n">> \o Spaces(6)),
          cont |-> EndsWith(line, <<"\\">>)]
    ELSE IF StartsWith(line, <<"$", " ">>)
    THEN [html |-> Html(<<"\n">> \o Spaces(8) \o HlTitle, PlainValue(SliceFrom(line, 2)),
                        BackslashN \o <<"\n">> \o Spaces(6)),
          cont |-> EndsWith(line, <<"\\">>)]
    ELSE IF StartsWith(line, <<"#">>)
    THEN [html |-> Html(<<"\n">> \o Spaces(8) \o HlComment, PlainValue(line),
                        CloseSpan \o BackslashN \o <<"\n">> \o Spaces(6)),
          cont |-> cont]
    ELSE [html |-> Html(<<"\n">> \o Spaces(6) \o HlOutput, PlainValue(line),
                        CloseSpan \o BackslashN \o <<"\n">> \o Spaces(4)),
          cont |-> cont]

RECURSIVE ConsoleLines(_, _)
ConsoleLines(ls, cont) ==
    IF ls = <<>> THEN <<>>
    ELSE LET r == ConsoleLine(Head(ls), cont)
         IN <<r.html>> \o ConsoleLines(Tail(ls), r.cont)

\* add_spans_console(source)
add_spans_console(s) ==
    Html(<<"\n">> \o Spaces(4),
         HtmlValue(Concat(ConsoleLines(Split(TrimEnd(s), "\n"), FALSE))),
         <<"\n">> \o Spaces(2))

----------------------------------------------------------------------------
(* add_spans: the grammar path. *)

\* `hl-${capture.name.replaceAll(".", "-")}`
TokenClass(name) == <<"h", "l", "-">> \o ReplaceChar(name, ".", <<"-">>)

\* tokens.push({start, end, class}) for one capture.
TokenOf(capture) ==
    [start |-> capture.start, end |-> capture.end, class |-> TokenClass(capture.name)]

\* The comparator with the ends in rising order.
CompareEndsRising(a, b) == IF a.start - b.start # 0 THEN a.start - b.start ELSE a.end - b.end

\* The comparator of tokens.sort: a.start - b.start || b.end - a.end.
Compare(a, b) == IF a.start - b.start # 0 THEN a.start - b.start ELSE b.end - a.end

RECURSIVE InsertSorted(_, _)
\* t goes behind every token that does not compare greater: the sort is stable.
InsertSorted(sorted, t) ==
    IF sorted = <<>> THEN <<t>>
    ELSE IF Compare(Head(sorted), t) <= 0 THEN <<Head(sorted)>> \o InsertSorted(Tail(sorted), t)
    ELSE <<t>> \o sorted

RECURSIVE SortTokens(_)
\* tokens.sort((a, b) => a.start - b.start || b.end - a.end)
SortTokens(ts) ==
    IF ts = <<>> THEN <<>>
    ELSE InsertSorted(SortTokens(SubSeq(ts, 1, Len(ts) - 1)), ts[Len(ts)])

\* PopSpan without the close tag.
PopSpanNoClose(st, s) ==
    LET closed == st.stack[Len(st.stack)] IN
    [st EXCEPT !.html = st.html \o EscapeHtml(Slice(s, st.pos, closed.end)),
               !.pos = closed.end,
               !.stack = SubSeq(st.stack, 1, Len(st.stack) - 1),
               !.trace = Append(st.trace, closed.end),
               !.events = Append(st.events, [kind |-> "close", token |-> closed])]

\* The body of both while loops: pop the top span, emit the text up to its
\* end and its close tag, and put the cursor at its end.
PopSpan(st, s) ==
    LET closed == st.stack[Len(st.stack)] IN
    [st EXCEPT !.html = st.html \o EscapeHtml(Slice(s, st.pos, closed.end)) \o CloseSpan,
               !.pos = closed.end,
               !.stack = SubSeq(st.stack, 1, Len(st.stack) - 1),
               !.trace = Append(st.trace, closed.end),
               !.events = Append(st.events, [kind |-> "close", token |-> closed])]

RECURSIVE CloseBehind(_, _, _)
\* while (stack.length > 0 && stack[stack.length - 1].end <= token.start)
CloseBehind(st, s, token) ==
    IF Len(st.stack) > 0 /\ st.stack[Len(st.stack)].end <= token.start
    THEN CloseBehind(PopSpan(st, s), s, token)
    ELSE st

\* if (pos < token.start): the plain text between the cursor and the token.
EmitGap(st, s, token) ==
    IF st.pos < token.start
    THEN [st EXCEPT !.html = st.html \o EscapeHtml(Slice(s, st.pos, token.start)),
                    !.pos = token.start,
                    !.trace = Append(st.trace, token.start)]
    ELSE st

\* html += `<span class="${token.class}">`; stack.push(token)
PushSpan(st, token) ==
    [st EXCEPT !.html = st.html \o OpenSpan(token.class),
               !.stack = Append(st.stack, token),
               !.events = Append(st.events, [kind |-> "open", token |-> token])]

\* One iteration of for (const token of tokens).
TokenStep(st, s, token) ==
    IF token.start < st.pos THEN [st EXCEPT !.skipped = st.skipped + 1]
    ELSE PushSpan(EmitGap(CloseBehind(st, s, token), s, token), token)

RECURSIVE TokenLoop(_, _, _)
TokenLoop(st, s, ts) ==
    IF ts = <<>> THEN st ELSE TokenLoop(TokenStep(st, s, Head(ts)), s, Tail(ts))

RECURSIVE CloseAll(_, _)
\* while (stack.length > 0)
CloseAll(st, s) == IF Len(st.stack) > 0 THEN CloseAll(PopSpan(st, s), s) ELSE st

\* if (pos < source.length) html += escapeHtml(source.slice(pos))
EmitRest(st, s) ==
    IF st.pos < Len(s) THEN [st EXCEPT !.html = st.html \o EscapeHtml(SliceFrom(s, st.pos))]
    ELSE st

\* The grammar path of add_spans over the sorted tokens: html is the result;
\* trace lists the values the cursor pos took, skipped counts the tokens the
\* loop passed over, events lists the spans in the order they were opened and
\* closed.
Overlay(s, ts) ==
    EmitRest(CloseAll(TokenLoop([html |-> <<>>, pos |-> 0, stack |-> <<>>,
                                 trace |-> <<0>>, skipped |-> 0, events |-> <<>>],
                                s, ts), s), s)

----------------------------------------------------------------------------
(* highlight: line re-splitting and line wrapping. *)

\* The end (exclusive) of a match of <span [^>]+> at offset i, or -1.
OpenTagEnd(s, i) ==
    IF MatchAt(s, i, <<"<", "s", "p", "a", "n", " ">>) /\ i + 6 < Len(s) /\ s[i + 7] # ">"
    THEN LET closing == {j \in (i + 8)..Len(s) : s[j] = ">"}
         IN IF closing = {} THEN -1 ELSE Least(closing)
    ELSE -1

\* Some alternative of /(<span [^>]+>)|(<\/span>)|(\n)/ matches at offset i.
ResplitMatchAt(s, i) ==
    \/ s[i + 1] = "\n"
    \/ s[i + 1] = "<" /\ (MatchAt(s, i, CloseSpan) \/ OpenTagEnd(s, i) # -1)

RECURSIVE ResplitScan(_, _, _, _)
\* highlighted.replace(/(<span [^>]+>)|(<\/span>)|(\n)/g, ...), from offset i,
\* from match to match; the callback keeps openTags, the tags not yet closed.
ResplitScan(s, i, openTags, out) ==
    LET found == {j \in i..(Len(s) - 1) : ResplitMatchAt(s, j)}
    IN IF found = {} THEN out \o SliceFrom(s, i)
       ELSE LET j == Least(found)
                skipped == out \o Slice(s, i, j)
            IN IF OpenTagEnd(s, j) # -1
               THEN ResplitScan(s, OpenTagEnd(s, j),
                                Append(openTags, Slice(s, j, OpenTagEnd(s, j))),
                                skipped \o Slice(s, j, OpenTagEnd(s, j)))
               ELSE IF MatchAt(s, j, CloseSpan)
               THEN ResplitScan(s, j + 7,
                                IF openTags = <<>> THEN <<>>
                                ELSE SubSeq(openTags, 1, Len(openTags) - 1),
                                skipped \o CloseSpan)
               ELSE ResplitScan(s, j + 1, openTags,
                                skipped \o Repeat(CloseSpan, Len(openTags)) \o <<"\n">>
                                        \o Concat(openTags))

\* The merged HTML left as it is.
ResplitSkipped(s) == s

\* Lines 90-106 of highlight.
Resplit(s) == ResplitScan(s, 0, <<>>, <<>>)

\* `<i class="callout" data-value="${it}"></i>`
CalloutIcon(d) ==
    <<"<", "i", " ", "c", "l", "a", "s", "s", "=", "\"", "c", "a", "l", "l", "o", "u", "t",
      "\"", " ", "d", "a", "t", "a", "-", "v", "a", "l", "u", "e", "=", "\"", d,
      "\"", ">", "<", "/", "i", ">">>

\* callouts.get(idx) ?? []
CalloutsAt(res, idx) == IF idx \in DOMAIN res THEN res[idx] ELSE <<>>

HlLine == <<" ", "h", "l", "-", "l", "i", "n", "e">>

\* The callback of map in highlight for the line it at index idx:
\* `<span class="line${cls}">${it}${calls}</span>`
WrapLine(it, idx, els, res) ==
    LET cls == IF Includes(els, idx + 1) THEN HlLine ELSE <<>>
        calls == Join([k \in 1..Len(CalloutsAt(res, idx)) |-> CalloutIcon(CalloutsAt(res, idx)[k])],
                      <<" ">>)
    IN <<"<", "s", "p", "a", "n", " ", "c", "l", "a", "s", "s", "=", "\"", "l", "i", "n", "e">>
       \o cls \o <<"\"", ">">> \o it \o calls \o CloseSpan

\* highlighted.split("\n").map(...): the wrapped lines, before join("\n").
WrapLines(s, els, res) ==
    LET ls == Split(s, "\n") IN [k \in 1..Len(ls) |-> WrapLine(ls[k], k - 1, els, res)]

PreCode == <<"<", "p", "r", "e", ">", "<", "c", "o", "d", "e", ">">>
CodePre == <<"<", "/", "c", "o", "d", "e", ">", "<", "/", "p", "r", "e", ">">>

\* html`⏎    <pre><code>${new HtmlString(lines)}</code></pre>⏎  `
Fragment(ls) ==
    Html(<<"\n">> \o Spaces(4) \o PreCode, HtmlValue(Join(ls, <<"\n">>)),
         CodePre \o <<"\n">> \o Spaces(2))

----------------------------------------------------------------------------
(* The inputs of highlight. *)

\* language === undefined
NoLanguage == "undefined"

\* The keys of LANG_CONFIGS (one grammar stands for the six).
LangConfigs == {"rust"}

\* An optional string argument.
Undefined == [defined |-> FALSE, value |-> <<>>]
Given(v) == [defined |-> TRUE, value |-> v]

RECURSIVE StringsUpTo(_, _)
\* The texts of at most n pieces, each piece one of chunks.
StringsUpTo(chunks, n) ==
    IF n = 0 THEN {<<>>}
    ELSE LET shorter == StringsUpTo(chunks, n - 1)
         IN shorter \cup {t \o c : t \in shorter, c \in chunks}

Marker(d) == <<"<", d, ">">>

\* Plain source texts: text, line breaks, a character to escape.
TextSources == StringsUpTo({<<"a">>, <<"\n">>, <<"<">>}, MaxLen)

\* Source texts with callout markers.
CalloutSources == StringsUpTo({<<"a">>, <<"\n">>, Marker("1"), Marker("2")}, MaxLen)

\* Source texts made of the characters of a marker, among them those in which
\* the removal of one marker leaves another behind.
MarkerCharSources == StringsUpTo({<<"<">>, <<"1">>, <<">">>}, MaxLen + 3)

\* Console transcripts: prompts, comments, continued lines, output.
ConsoleSources == StringsUpTo({<<"$", " ">>, <<"#">>, <<"\\">>, <<"\n">>, <<"a">>}, MaxLen)

\* A command continued on a second line that reads as a comment.
Continued == <<"$", " ", "a", "\\", "\n", "#", " ", "b">>

\* Source texts of up to MaxLen + 1 lines.
LineSources == StringsUpTo({<<"a">>, <<"\n">>}, MaxLen)

\* The five-line snippet of the spec's scenario, and its highlight_spec "2,4-5".
FiveLines == <<"a", "\n", "a", "\n", "a", "\n", "a", "\n", "a">>
Spec245 == <<"2", ",", "4", "-", "5">>

\* highlight_spec strings: absent, empty, numbers, ranges, tokens that are no
\* numbers, and a range whose upper end is a numeral of eleven digits.
HighlightSpecs ==
    { Undefined,
      Given(<<>>),
      Given(<<"2">>),
      Given(<<"1", "-", "2">>),
      Given(<<"1", ",", " ", "3">>),
      Given(<<"3", "-", "2">>),
      Given(<<"x">>),
      Given(<<"2", ",", "x">>),
      Given(<<"x", "-", "2">>),
      Given(<<"1", "-", "9", "9", "9", "9", "9", "9", "9", "9", "9", "9", "9">>) }

\* The calls of highlight the model makes.
HighlightInputs ==
    [source : TextSources, language : {NoLanguage, "adoc", "console", "rust", "zig"},
     highlight_spec : {Undefined}]
    \cup [source : CalloutSources, language : {NoLanguage, "console", "rust"},
          highlight_spec : {Undefined}]
    \cup [source : MarkerCharSources, language : {NoLanguage}, highlight_spec : {Undefined}]
    \cup [source : ConsoleSources \cup {Continued}, language : {"console"},
          highlight_spec : {Undefined}]
    \cup [source : LineSources, language : {NoLanguage, "console"},
          highlight_spec : HighlightSpecs]
    \cup [source : {FiveLines}, language : {NoLanguage, "rust"},
          highlight_spec : {Given(Spec245)}]

\* The name of the captures of the model's grammar.
CaptureName == <<"f", ".", "m">>

\* The ranges a capture can have over a text of n characters.
Captures(n) ==
    {c \in [start : 0..n, end : 0..n, name : {CaptureName}] : c.start <= c.end}

\* Captures are listed from the end of the text backwards: the order in which
\* query.captures reports them does not matter, since add_spans sorts them
\* and all captures of one range are alike.
Rank(c, n) == c.start * (n + 1) + c.end

RECURSIVE CaptureSeqs(_, _)
\* What query.captures can return over a text of n characters: at most k
\* captures of any ranges (nested, adjacent, identical, overlapping).
CaptureSeqs(n, k) ==
    IF k = 0 THEN {<<>>}
    ELSE LET shorter == CaptureSeqs(n, k - 1)
         IN shorter \cup {Append(t, c) : t \in {u \in shorter : Len(u) = k - 1},
                                         c \in Captures(n)}

\* One listing per multiset of captures.
CaptureLists(n, k) ==
    {t \in CaptureSeqs(n, k) :
        \A i \in 1..(Len(t) - 1) : Rank(t[i], n) >= Rank(t[i + 1], n)}

----------------------------------------------------------------------------
(* The highlighter as a state machine. *)

NoResult == [status |-> "none", value |-> <<>>]

HlIdle ==
    /\ hl_pc = "idle"
    /\ source = <<>>
    /\ language = NoLanguage
    /\ highlight_spec = Undefined
    /\ spec = <<>>
    /\ src = <<>>
    /\ callouts = <<>>
    /\ branch = "none"
    /\ tokens = <<>>
    /\ highlighted = <<>>
    /\ lines = <<>>
    /\ result = NoResult

HlInit == initialized = FALSE /\ parsers = {} /\ HlIdle

\* initTreeSitter(): every grammar of LANG_CONFIGS is loaded, and one that
\* fails to load is left out of parsers and queries.
InitTreeSitter ==
    /\ hl_pc = "idle"
    /\ ~initialized
    /\ initialized' = TRUE
    /\ \E loaded \in SUBSET LangConfigs : parsers' = loaded
    /\ UNCHANGED <<hl_pc, source, language, highlight_spec, spec, src, callouts, branch,
                   tokens, highlighted, lines, result>>
    /\ UNCHANGED outside_hl

\* highlight(source, language, highlight_spec), lines 81-85:
\* parse_highlight_spec, which may raise, then parse_callouts.
HighlightCall(in) ==
    /\ hl_pc = "idle"
    /\ source' = in.source
    /\ language' = in.language
    /\ highlight_spec' = in.highlight_spec
    /\ LET parsed == parse_highlight_spec(in.highlight_spec)
           co == parse_callouts(in.source)
       IN IF parsed.raised
          THEN /\ hl_pc' = "done"
               /\ result' = [status |-> "raised", value |-> <<>>]
               /\ UNCHANGED <<spec, src, callouts>>
          ELSE /\ hl_pc' = "add_spans"
               /\ spec' = parsed.els
               /\ src' = co.text
               /\ callouts' = co.res
               /\ UNCHANGED result
    /\ UNCHANGED <<initialized, parsers, branch, tokens, highlighted, lines>>
    /\ UNCHANGED outside_hl

AddSpansFrame ==
    /\ UNCHANGED <<initialized, parsers, source, language, highlight_spec, spec,
                   src, callouts, lines, result>>
    /\ UNCHANGED outside_hl

\* add_spans: if (!language || language === "adoc")
AddSpansPlain ==
    /\ hl_pc = "add_spans"
    /\ language \in {NoLanguage, "", "adoc"}
    /\ branch' = "plain"
    /\ highlighted' = PlainTemplate(src)
    /\ hl_pc' = "resplit"
    /\ UNCHANGED tokens
    /\ AddSpansFrame

\* add_spans: if (language === "console")
AddSpansConsole ==
    /\ hl_pc = "add_spans"
    /\ language = "console"
    /\ branch' = "console"
    /\ highlighted' = add_spans_console(src)
    /\ hl_pc' = "resplit"
    /\ UNCHANGED tokens
    /\ AddSpansFrame

\* getParser(language) !== null
HasParser(lang) == initialized /\ lang \in parsers

\* add_spans: getParser returned null.
AddSpansNoGrammar ==
    /\ hl_pc = "add_spans"
    /\ language \notin {NoLanguage, "", "adoc", "console"}
    /\ ~HasParser(language)
    /\ branch' = "no_grammar"
    /\ highlighted' = NoGrammarTemplate(src)
    /\ hl_pc' = "resplit"
    /\ UNCHANGED tokens
    /\ AddSpansFrame

\* add_spans: the parser and the query ran; captures is what the query returned.
AddSpansGrammar ==
    /\ hl_pc = "add_spans"
    /\ language \notin {NoLanguage, "", "adoc", "console"}
    /\ HasParser(language)
    /\ \E captures \in CaptureLists(Len(src), MaxCaptures) :
          /\ tokens' = SortTokens([i \in 1..Len(captures) |-> TokenOf(captures[i])])
          /\ highlighted' = Overlay(src, tokens').html
    /\ branch' = "grammar"
    /\ hl_pc' = "resplit"
    /\ AddSpansFrame

\* add_spans: parser.parse or query.captures threw, and the catch block returned.
AddSpansCatch ==
    /\ hl_pc = "add_spans"
    /\ language \notin {NoLanguage, "", "adoc", "console"}
    /\ HasParser(language)
    /\ branch' = "catch"
    /\ highlighted' = CatchTemplate(src)
    /\ hl_pc' = "resplit"
    /\ UNCHANGED tokens
    /\ AddSpansFrame

\* highlight, lines 88-106: trimEnd and the re-splitting of spans at line breaks.
ResplitLines ==
    /\ hl_pc = "resplit"
    /\ highlighted' = Resplit(TrimEnd(highlighted))
    /\ hl_pc' = "wrap"
    /\ UNCHANGED <<initialized, parsers, source, language, highlight_spec, spec, src,
                   callouts, branch, tokens, lines, result>>
    /\ UNCHANGED outside_hl

\* highlight, lines 108-118: the lines are wrapped and the fragment returned.
WrapAndReturn ==
    /\ hl_pc = "wrap"
    /\ lines' = Join(WrapLines(highlighted, spec, callouts), <<"\n">>)
    /\ result' = [status |-> "returned", value |-> Fragment(WrapLines(highlighted, spec, callouts))]
    /\ hl_pc' = "done"
    /\ UNCHANGED <<initialized, parsers, source, language, highlight_spec, spec, src,
                   callouts, branch, tokens, highlighted>>
    /\ UNCHANGED outside_hl

\* The caller takes the result; the next call starts from fresh locals.
HighlightDone ==
    /\ hl_pc = "done"
    /\ hl_pc' = "idle"
    /\ source' = <<>>
    /\ language' = NoLanguage
    /\ highlight_spec' = Undefined
    /\ spec' = <<>>
    /\ src' = <<>>
    /\ callouts' = <<>>
    /\ branch' = "none"
    /\ tokens' = <<>>
    /\ highlighted' = <<>>
    /\ lines' = <<>>
    /\ result' = NoResult
    /\ UNCHANGED <<initialized, parsers>>
    /\ UNCHANGED outside_hl

HlNext ==
    \/ InitTreeSitter
    \/ \E in \in HighlightInputs : HighlightCall(in)
    \/ AddSpansPlain
    \/ AddSpansConsole
    \/ AddSpansNoGrammar
    \/ AddSpansGrammar
    \/ AddSpansCatch
    \/ ResplitLines
    \/ WrapAndReturn
    \/ HighlightDone

----------------------------------------------------------------------------
(* The djot AST that render visits. *)

\* A node of the AST. Every node has every field: text is the text of a str
\* and the label of a footnote_reference, class is the class attribute,
\* id is autoAttributes.id.
NoNode ==
    [tag |-> "undefined", level |-> 0, text |-> <<>>, class |-> <<>>,
     destination |-> Undefined, id |-> <<>>, cap |-> Undefined, style |-> "",
     children |-> <<>>]

Str(text) == [NoNode EXCEPT !.tag = "str", !.text = text]
FootnoteReference(label) == [NoNode EXCEPT !.tag = "footnote_reference", !.text = label]
Image(class, destination) ==
    [NoNode EXCEPT !.tag = "image", !.class = class, !.destination = destination]
Span(class, children) == [NoNode EXCEPT !.tag = "span", !.class = class, !.children = children]
Para(children) == [NoNode EXCEPT !.tag = "para", !.children = children]
Heading(level, children) ==
    [NoNode EXCEPT !.tag = "heading", !.level = level, !.children = children]
Section(id, children) ==
    [NoNode EXCEPT !.tag = "section", !.id = id, !.children = children]
Div(class, cap, children) ==
    [NoNode EXCEPT !.tag = "div", !.class = class, !.cap = cap, !.children = children]
BlockQuote(children) == [NoNode EXCEPT !.tag = "block_quote", !.children = children]
OrderedList(style, children) ==
    [NoNode EXCEPT !.tag = "ordered_list", !.style = style, !.children = children]
ListItem(children) == [NoNode EXCEPT !.tag = "list_item", !.children = children]
DocNode(children) == [NoNode EXCEPT !.tag = "doc", !.children = children]

\* The node types with a text field ("text" in node).
HasText == {"str", "footnote_reference"}

RECURSIVE get_string_content(_)
\* get_string_content and add_string_content: the texts under a node, joined.
get_string_content(node) ==
    IF node.tag \in HasText THEN node.text
    ELSE IF node.tag \in {"soft_break", "hard_break"} THEN <<"\n">>
    ELSE Concat([i \in 1..Len(node.children) |-> get_string_content(node.children[i])])

\* attr(node, "class") ?? "" split at spaces includes cls.
has_class(node, cls) ==
    \E i \in 1..Len(Split(node.class, " ")) : Split(node.class, " ")[i] = cls

\* get_child(node, tag): the first child with the tag, or NoNode.
get_child(node, tag) ==
    LET at == {i \in 1..Len(node.children) : node.children[i].tag = tag}
    IN IF at = {} THEN NoNode ELSE node.children[Least(at)]

\* The test of the destination dropped: no destination counts as missing.
DestinationNeverMissing(node) == FALSE

\* !node.destination: the destination is absent or the empty string.
MissingDestination(node) ==
    ~node.destination.defined \/ node.destination.value = <<>>

\* !ctx.summary: the summary is absent or the empty string.
SummaryUnset(c) == ~c.summary.defined \/ c.summary.value = <<>>

----------------------------------------------------------------------------
(* The documents the model renders. *)

\* The most blocks in the body of a document.
MaxBlocks == 2

\* Footnote labels: a and b can be defined, u never is.
LabelA == <<"a">>
LabelB == <<"b">>
LabelU == <<"u">>

Video == <<"v", "i", "d", "e", "o">>
Kbd == <<"k", "b", "d">>

\* ![](){.video}: a video with no destination.
BrokenVideo == Image(Video, Undefined)

\* The paragraphs of a body: text, footnote references, a paragraph of one
\* image, videos with and without a destination, a video inside a kbd span,
\* and a paragraph of two images with no alt text.
Paras ==
    { Para(<<Str(<<"x">>)>>),
      Para(<<Str(<<"x">>), FootnoteReference(LabelA)>>),
      Para(<<FootnoteReference(LabelA)>>),
      Para(<<FootnoteReference(LabelB)>>),
      Para(<<FootnoteReference(LabelB), FootnoteReference(LabelA)>>),
      Para(<<FootnoteReference(LabelU)>>),
      Para(<<BrokenVideo>>),
      Para(<<Str(<<"x">>), BrokenVideo>>),
      Para(<<Span(Kbd, <<Str(<<"k">>), BrokenVideo>>)>>),
      Para(<<Image(Video, Given(<<"v">>))>>),
      Para(<<Image(<<>>, Given(<<"i">>)), Image(<<>>, Given(<<"i">>))>>) }

\* The sections of a body: the parser wraps a heading and what follows it.
Sections ==
    { Section(<<"A">>, <<Heading(1, <<Str(<<"A">>)>>)>>),
      Section(<<"B">>, <<Heading(1, <<Str(<<"B">>)>>), Para(<<Str(<<"y">>)>>)>>),
      Section(<<"C">>, <<Heading(2, <<Str(<<"C">>)>>), Para(<<Str(<<"z">>)>>)>>) }

Blocks == Paras \cup Sections

RECURSIVE BlockSeqs(_)
\* The bodies of at most n blocks.
BlockSeqs(n) ==
    IF n = 0 THEN {<<>>}
    ELSE LET shorter == BlockSeqs(n - 1)
         IN shorter \cup {Append(t, b) : t \in {u \in shorter : Len(u) = n - 1}, b \in Blocks}

\* The children of the footnote a: text, a video with no destination, a
\* reference to the footnote b.
FootnotesA ==
    { <<Para(<<Str(<<"n">>)>>)>>,
      <<Para(<<BrokenVideo>>)>>,
      <<Para(<<Str(<<"n">>), FootnoteReference(LabelB)>>)>> }

\* The children of the footnote b.
FootnotesB == { <<Para(<<Str(<<"m">>)>>)>> }

\* doc.footnotes: a, when defined, is defined before b.
FootnoteTables ==
    {[l \in {} |-> <<>>]}
    \cup {LabelA :> fa : fa \in FootnotesA}
    \cup {LabelB :> fb : fb \in FootnotesB}
    \cup {LabelA :> fa @@ LabelB :> fb : fa \in FootnotesA, fb \in FootnotesB}

Link(class, destination, children) ==
    [NoNode EXCEPT !.tag = "link", !.class = class, !.destination = destination,
                   !.children = children]

\* The destinations of the links: root-relative, a fragment, relative, bare,
\* http, https and mailto.
LinkDestinations ==
    { <<"/", "a">>,
      <<"#", "a">>,
      <<".", "/", "a">>,
      <<".", ".", "/", "a">>,
      <<"a">>,
      <<"h", "t", "t", "p", ":", "/", "/", "a">>,
      <<"h", "t", "t", "p", "s", ":", "/", "/", "a">>,
      <<"m", "a", "i", "l", "t", "o", ":", "a">> }

\* The documents of one paragraph with one link: with each destination, with
\* a class of its own or none, and one link with no destination.
LinkDocs ==
    {[children |-> <<Para(<<Link(c, Given(d), <<Str(<<"t">>)>>)>>)>>,
      footnotes |-> [l \in {} |-> <<>>]] : c \in {<<>>, <<"c">>}, d \in LinkDestinations}
    \cup {[children |-> <<Para(<<Link(<<>>, Undefined, <<Str(<<"t">>)>>)>>)>>,
           footnotes |-> [l \in {} |-> <<>>]]}

\* Sections inside sections, and headings that open no section of their own,
\* inside a div: before every section, behind a nested section, and under a
\* section whose heading is of level 1.
Nested ==
    { Div(<<>>, Undefined, <<Heading(2, <<Str(<<"q">>)>>)>>),
      Section(<<"A">>, <<Heading(2, <<Str(<<"A">>)>>),
                         Section(<<"B">>, <<Heading(3, <<Str(<<"B">>)>>)>>),
                         Div(<<>>, Undefined, <<Heading(3, <<Str(<<"q">>)>>)>>)>>),
      Section(<<"A">>, <<Heading(2, <<Str(<<"A">>)>>),
                         Div(<<>>, Undefined, <<Heading(3, <<Str(<<"q">>)>>)>>),
                         Section(<<"B">>,
                                 <<Heading(3, <<Str(<<"B">>)>>),
                                   Section(<<"C">>, <<Heading(4, <<Str(<<"C">>)>>)>>),
                                   Div(<<>>, Undefined, <<Heading(4, <<Str(<<"q">>)>>)>>)>>)>>),
      Section(<<"T">>, <<Heading(1, <<Str(<<"T">>)>>),
                         Section(<<"B">>, <<Heading(2, <<Str(<<"B">>)>>)>>),
                         Div(<<>>, Undefined, <<Heading(2, <<Str(<<"q">>)>>)>>)>>) }

\* The documents of one or two of these blocks.
SectionDocs ==
    {[children |-> <<a>>, footnotes |-> [l \in {} |-> <<>>]] : a \in Nested}
    \cup {[children |-> <<a, b>>, footnotes |-> [l \in {} |-> <<>>]] : a \in Nested, b \in Nested}

\* The bodies of a footnote that is referenced twice: text, a link, a block
\* quote with its source, a captioned block, a list of callouts.
TwiceBodies ==
    { <<Para(<<Str(<<"n">>)>>)>>,
      <<Para(<<Link(<<>>, Given(<<"/", "a">>), <<Str(<<"t">>)>>)>>)>>,
      <<BlockQuote(<<Para(<<Str(<<"q">>)>>),
                     Para(<<Link(<<>>, Given(<<"h", "t", "t", "p", ":", "/", "/", "a">>),
                                 <<Str(<<"t">>)>>)>>)>>)>>,
      <<Div(<<"b", "l", "o", "c", "k">>, Given(<<"c">>), <<Para(<<Str(<<"n">>)>>)>>)>>,
      <<OrderedList("1)", <<ListItem(<<Para(<<Str(<<"n">>)>>)>>)>>)>> }

\* The documents that refer to the footnote a twice, in one paragraph or in
\* two.
TwiceDocs ==
    {[children |-> c, footnotes |-> LabelA :> b] :
        c \in {<<Para(<<FootnoteReference(LabelA), FootnoteReference(LabelA)>>)>>,
               <<Para(<<FootnoteReference(LabelA)>>), Para(<<FootnoteReference(LabelA)>>)>>},
        b \in TwiceBodies}

\* The documents of one container: an admonition (info, warn, danger), a
\* block and a details with or without a caption, a div of no known class.
DivDocs ==
    {[children |-> <<Div(class, cap, <<Para(<<Str(<<"n">>)>>)>>)>>,
      footnotes |-> [l \in {} |-> <<>>]] :
        class \in {<<"i", "n", "f", "o">>, <<"w", "a", "r", "n">>,
                   <<"d", "a", "n", "g", "e", "r">>, <<"b", "l", "o", "c", "k">>,
                   <<"d", "e", "t", "a", "i", "l", "s">>, <<"x">>},
        cap \in {Undefined, Given(<<"c">>)}}

\* The documents whose footnotes refer to themselves: a to a, or a to b and b
\* to a.
CyclicDocs ==
    {[children |-> <<Para(<<FootnoteReference(LabelA)>>)>>, footnotes |-> t] :
        t \in { LabelA :> <<Para(<<Str(<<"n">>), FootnoteReference(LabelA)>>)>>,
                LabelA :> <<Para(<<Str(<<"n">>), FootnoteReference(LabelB)>>)>>
                @@ LabelB :> <<Para(<<Str(<<"m">>), FootnoteReference(LabelA)>>)>> }}

\* The documents render is called with.
Docs == [children : BlockSeqs(MaxBlocks), footnotes : FootnoteTables]

NoDoc == [children |-> <<>>, footnotes |-> [l \in {} |-> <<>>]]

----------------------------------------------------------------------------
(* render as a state machine. The recursion of renderAstNode is the stack:  *)
(* a frame is a node to render or the rest of a handler that waits for its  *)
(* children. The HTML is a sequence of pieces: the text of the document one *)
(* character a piece, the markup in longer pieces.                          *)

\* Where a node is: in the body of the document, or in the footnote of a
\* label, at a path of child indices from the children of the footnote.
InBody == [label |-> <<>>, path |-> <<>>]
InFootnote(label) == [label |-> label, path |-> <<>>]

NoFrame ==
    [op |-> "none", node |-> NoNode, at |-> InBody, tail |-> <<>>, prev |-> NoNode, mark |-> 0,
     site |-> 0]

\* r.renderAstNode(node) is to be called.
RenderFrame(node) == [NoFrame EXCEPT !.op = "render", !.node = node]

\* r.renderChildren(node): the children, in order; at is where the node is.
ChildFrames(children, at) ==
    [i \in 1..Len(children) |->
        [RenderFrame(children[i]) EXCEPT
            !.at = IF at.label = <<>> THEN InBody
                   ELSE [at EXCEPT !.path = Append(at.path, i)]]]

RECURSIVE SetAt(_, _, _)
\* The nodes with the node at the path replaced.
SetAt(nodes, path, node) ==
    IF Len(path) = 1 THEN [nodes EXCEPT ![path[1]] = node]
    ELSE [nodes EXCEPT ![path[1]].children = SetAt(@, Tail(path), node)]

\* The footnote table once a handler has changed the node it renders: the
\* table holds the node itself, not a copy. The nodes of the body are
\* rendered once in a pass, and doc keeps the document as render was given it.
Changed(notes, at, node) ==
    IF at.label = <<>> THEN notes
    ELSE [notes EXCEPT ![at.label] = SetAt(@, at.path, node)]

\* The rest of a handler's template, after the children.
TailFrame(pieces) == [NoFrame EXCEPT !.op = "tail", !.tail = pieces]

\* The handler at the top of the stack is about to render a node with the tag.
Visiting(tag) ==
    /\ render_pc = "running"
    /\ stack # <<>>
    /\ stack[1].op = "render"
    /\ stack[1].node.tag = tag

\* The handler at the top of the stack resumes after its children.
Resuming(op) ==
    /\ render_pc = "running"
    /\ stack # <<>>
    /\ stack[1].op = op

NoHtml == [status |-> "none", value |-> <<>>]

RenderIdle ==
    /\ render_pc = "idle"
    /\ doc = NoDoc
    /\ ctx = [summary |-> Undefined, title |-> Undefined]
    /\ section = NoNode
    /\ documentSideNotes = [l \in {} |-> <<>>]
    /\ footnoteIndex = [l \in {} |-> 0]
    /\ stack = <<>>
    /\ written = <<>>
    /\ sites = <<>>
    /\ rendered = NoHtml

\* render(doc, ctx) with ctx = {} or {date, summary: undefined, title: undefined}:
\* renderHTML(doc, {overrides}) starts at the doc node. The model's calls pass
\* no date and no reading time.
Render(d) ==
    /\ render_pc = "idle"
    /\ hl_pc = "idle"
    /\ render_pc' = "running"
    /\ doc' = d
    /\ stack' = <<RenderFrame(DocNode(d.children))>>
    /\ UNCHANGED <<ctx, section, documentSideNotes, footnoteIndex, written, sites, rendered>>
    /\ UNCHANGED outside_render

\* overrides.doc: documentSideNotes = node.footnotes, then the default
\* rendering: the children. No endnotes follow, since nothing advances the
\* renderer's next footnote index.
DocOverride ==
    /\ Visiting("doc")
    /\ documentSideNotes' = doc.footnotes
    /\ stack' = ChildFrames(stack[1].node.children, InBody)
                \o <<[NoFrame EXCEPT !.op = "doc_end"]>> \o Tail(stack)
    /\ UNCHANGED <<render_pc, doc, ctx, section, footnoteIndex, written, sites, rendered>>
    /\ UNCHANGED outside_render

\* return new HtmlString(renderHTML(doc, { overrides }))
RenderReturn ==
    /\ Resuming("doc_end")
    /\ render_pc' = "returned"
    /\ rendered' = [status |-> "returned", value |-> written]
    /\ stack' = Tail(stack)
    /\ UNCHANGED <<doc, ctx, section, documentSideNotes, footnoteIndex, written, sites>>
    /\ UNCHANGED outside_render

\* overrides.section: section = node; the children alone when the section's
\* heading is of level 1, else the default <section>; section = section_prev
\* once the children are rendered.
SectionOverride ==
    /\ Visiting("section")
    /\ LET node == stack[1].node
           bare == get_child(node, "heading").level = 1
           end == [NoFrame EXCEPT !.op = "section_end", !.prev = section,
                                  !.tail = IF bare THEN <<>> ELSE <<"</section>", "\n">>]
       IN /\ section' = node
          /\ written' = IF bare THEN written
                    ELSE written \o <<"<section id=\"">> \o node.id \o <<"\">", "\n">>
          /\ stack' = ChildFrames(node.children, stack[1].at) \o <<end>> \o Tail(stack)
    /\ UNCHANGED <<render_pc, doc, ctx, documentSideNotes, footnoteIndex, sites, rendered>>
    /\ UNCHANGED outside_render

\* overrides.section with the current section left as the children leave it.
SectionReturnNoRestore ==
    /\ Resuming("section_end")
    /\ written' = written \o stack[1].tail
    /\ stack' = Tail(stack)
    /\ UNCHANGED <<render_pc, doc, ctx, section, documentSideNotes, footnoteIndex, sites,
                   rendered>>
    /\ UNCHANGED outside_render

\* overrides.section: section = section_prev; return result.
SectionReturn ==
    /\ Resuming("section_end")
    /\ section' = stack[1].prev
    /\ written' = written \o stack[1].tail
    /\ stack' = Tail(stack)
    /\ UNCHANGED <<render_pc, doc, ctx, documentSideNotes, footnoteIndex, sites, rendered>>
    /\ UNCHANGED outside_render

\* overrides.heading: a heading of level 1 gives ctx.title and the <header>;
\* any other heading is anchored to the id of the current section.
HeadingOverride ==
    /\ Visiting("heading")
    /\ LET node == stack[1].node
           tag == "h" \o ToString(node.level)
           anchored == node.level > 1 /\ section.id # <<>>
       IN IF node.level = 1
          THEN /\ ctx' = [ctx EXCEPT !.title = Given(get_string_content(node))]
               /\ written' = written \o <<"<header>\n      <h1>">>
               /\ stack' = ChildFrames(node.children, stack[1].at)
                           \o <<TailFrame(<<"</h1>\n      \n    </header>">>)>>
                           \o Tail(stack)
          ELSE /\ ctx' = ctx
               /\ written' = written \o <<"\n<" \o tag \o ">">>
                             \o (IF anchored THEN <<"<a href=\"#">> \o section.id \o <<"\">">>
                                 ELSE <<>>)
               /\ stack' = ChildFrames(node.children, stack[1].at)
                           \o <<TailFrame((IF anchored THEN <<"</a>">> ELSE <<>>)
                                          \o <<"</" \o tag \o ">\n">>)>>
                           \o Tail(stack)
    /\ UNCHANGED <<render_pc, doc, section, documentSideNotes, footnoteIndex, sites, rendered>>
    /\ UNCHANGED outside_render

\* The rest of a template after ${children}.
TemplateTail ==
    /\ Resuming("tail")
    /\ written' = written \o stack[1].tail
    /\ stack' = Tail(stack)
    /\ UNCHANGED <<render_pc, doc, ctx, section, documentSideNotes, footnoteIndex, sites,
                   rendered>>
    /\ UNCHANGED outside_render

\* overrides.para: a paragraph of one image is a <figure> (the model's
\* paragraphs have no cap attribute); any other is the default <p>, and
\* ctx.summary is looked at once the paragraph is rendered.
ParaOverride ==
    /\ Visiting("para")
    /\ LET node == stack[1].node
           figure == Len(node.children) = 1 /\ node.children[1].tag = "image"
       IN IF figure
          THEN /\ written' = written \o <<"<figure>">>
               /\ stack' = ChildFrames(node.children, stack[1].at) \o <<TailFrame(<<"</figure>">>)>>
                           \o Tail(stack)
          ELSE /\ written' = written \o <<"<p>">>
               /\ stack' = ChildFrames(node.children, stack[1].at)
                           \o <<[NoFrame EXCEPT !.op = "para_end", !.node = node]>>
                           \o Tail(stack)
    /\ UNCHANGED <<render_pc, doc, ctx, section, documentSideNotes, footnoteIndex, sites,
                   rendered>>
    /\ UNCHANGED outside_render

\* overrides.para, lines 530-532: the default rendering has returned;
\* if (!ctx.summary) ctx.summary = get_string_content(node).
ParaReturn ==
    /\ Resuming("para_end")
    /\ written' = written \o <<"</p>", "\n">>
    /\ ctx' = IF SummaryUnset(ctx)
              THEN [ctx EXCEPT !.summary = Given(get_string_content(stack[1].node))]
              ELSE ctx
    /\ stack' = Tail(stack)
    /\ UNCHANGED <<render_pc, doc, section, documentSideNotes, footnoteIndex, sites, rendered>>
    /\ UNCHANGED outside_render

\* overrides.image for a node classed video with a destination, and the
\* default <img> for any other image.
ImageOverride ==
    /\ Visiting("image")
    /\ LET node == stack[1].node
       IN /\ ~(has_class(node, Video) /\ MissingDestination(node))
          /\ written' = written \o
                IF has_class(node, Video)
                THEN <<"<video src=\"">> \o node.destination.value
                     \o (IF has_class(node, <<"l", "o", "o", "p">>)
                         THEN <<"\" autoplay muted=true loop=true></video>">>
                         ELSE <<"\" controls muted=true></video>">>)
                ELSE <<"<img alt=\"">> \o EscapeHtml(get_string_content(node))
                     \o <<"\" src=\"">> \o EscapeHtml(node.destination.value) \o <<"\">">>
    /\ stack' = Tail(stack)
    /\ UNCHANGED <<render_pc, doc, ctx, section, documentSideNotes, footnoteIndex, sites,
                   rendered>>
    /\ UNCHANGED outside_render

\* overrides.image: if (!node.destination) throw "missing destination".
\* Nothing catches it: render raises, and no handler on the stack resumes.
ImageThrow ==
    /\ Visiting("image")
    /\ has_class(stack[1].node, Video)
    /\ MissingDestination(stack[1].node)
    /\ render_pc' = "raised"
    /\ stack' = <<>>
    /\ UNCHANGED <<doc, ctx, section, documentSideNotes, footnoteIndex, written, sites, rendered>>
    /\ UNCHANGED outside_render

\* The branch of overrides.span for kbd: the text under the node, split at "+".
KbdHtml(node) ==
    LET keys == Split(get_string_content(node), "+")
    IN <<"<kbd>">>
       \o Join([i \in 1..Len(keys) |-> <<"<kbd>">> \o keys[i] \o <<"</kbd>">>], <<"+">>)
       \o <<"</kbd>">>

\* overrides.span: code, dfn, kbd, or the default <span>.
SpanOverride ==
    /\ Visiting("span")
    /\ LET node == stack[1].node
           Around(open, close) ==
               /\ written' = written \o <<open>>
               /\ stack' = ChildFrames(node.children, stack[1].at)
                           \o <<TailFrame(<<close>>)>> \o Tail(stack)
       IN IF has_class(node, <<"c", "o", "d", "e">>) THEN Around("<code>", "</code>")
          ELSE IF has_class(node, <<"d", "f", "n">>) THEN Around("<dfn>", "</dfn>")
          ELSE IF has_class(node, Kbd)
               THEN written' = written \o KbdHtml(node) /\ stack' = Tail(stack)
          ELSE Around("<span>", "</span>")
    /\ UNCHANGED <<render_pc, doc, ctx, section, documentSideNotes, footnoteIndex, sites,
                   rendered>>
    /\ UNCHANGED outside_render

\* The attributes of a node, as r.renderAttributes writes them: the class,
\* after the classes the handler adds, and the cap.
Attributes(extra, class, cap) ==
    (IF extra \o class # <<>>
     THEN <<" class=\"">> \o extra \o (IF extra # <<>> /\ class # <<>> THEN <<" ">> ELSE <<>>)
          \o EscapeHtml(class) \o <<"\"">>
     ELSE <<>>)
    \o (IF cap.defined THEN <<" cap=\"">> \o EscapeHtml(cap.value) \o <<"\"">> ELSE <<>>)

\* extract_cap(node): the cap that is not empty; the node loses it.
extract_cap(node) == IF node.cap.defined /\ node.cap.value # <<>> THEN node.cap ELSE Undefined

\* overrides.div: an admonition for the classes info, warn and danger, an
\* aside for block, <details> for details, else the default <div>.
DivOverride ==
    /\ Visiting("div")
    /\ LET node == stack[1].node
           admon_icon == IF has_class(node, <<"d", "a", "n", "g", "e", "r">>) THEN "danger"
                         ELSE IF has_class(node, <<"w", "a", "r", "n">>) THEN "warn"
                         ELSE IF has_class(node, <<"i", "n", "f", "o">>) THEN "info"
                         ELSE ""
           Around(open, close) ==
               /\ written' = written \o open
               /\ stack' = ChildFrames(node.children, stack[1].at) \o <<TailFrame(close)>> \o Tail(stack)
       IN IF admon_icon # ""
          THEN Around(<<"<aside">> \o Attributes(<<"a", "d", "m", "n">>, node.class, node.cap)
                          \o <<"><svg class=\"icon\"><use href=\"/assets/icons.svg#"
                                   \o admon_icon \o "\"/></svg>", "<div>">>,
                      <<"</aside>">>)
          ELSE IF has_class(node, <<"b", "l", "o", "c", "k">>)
          THEN Around(<<"<aside">> \o Attributes(<<>>, node.class, Undefined) \o <<">">>
                          \o (IF extract_cap(node).defined
                              THEN <<"<div class=\"title\">">> \o extract_cap(node).value
                                   \o <<"</div>">>
                              ELSE <<>>),
                      <<"</aside>">>)
          ELSE IF has_class(node, <<"d", "e", "t", "a", "i", "l", "s">>)
          THEN Around(<<"<details>", "<summary>">>
                          \o (IF extract_cap(node).defined THEN extract_cap(node).value
                              ELSE <<"undefined">>)
                          \o <<"</summary>">>,
                      <<"</details>">>)
          ELSE Around(<<"<div">> \o Attributes(<<>>, node.class, node.cap) \o <<">", "\n">>,
                      <<"</div>", "\n">>)
    /\ LET node == stack[1].node
           extracts == /\ \A c \in {<<"d", "a", "n", "g", "e", "r">>, <<"w", "a", "r", "n">>,
                                     <<"i", "n", "f", "o">>} : ~has_class(node, c)
                       /\ \/ has_class(node, <<"b", "l", "o", "c", "k">>)
                          \/ has_class(node, <<"d", "e", "t", "a", "i", "l", "s">>)
                       /\ extract_cap(node).defined
       IN documentSideNotes' =
             IF extracts
             THEN Changed(documentSideNotes, stack[1].at, [node EXCEPT !.cap = Undefined])
             ELSE documentSideNotes
    /\ UNCHANGED <<render_pc, doc, ctx, section, footnoteIndex, sites, rendered>>
    /\ UNCHANGED outside_render

\* overrides.block_quote, lines 535-548: a last child that holds one link
\* and nothing else is taken off the children of the node and rendered first,
\* as the source of the quote.
BlockQuoteOverride ==
    /\ Visiting("block_quote")
    /\ LET node == stack[1].node
           n == Len(node.children)
           cited == /\ n > 0
                    /\ node.children[n].tag # "thematic_break"
                    /\ Len(node.children[n].children) = 1
                    /\ node.children[n].children[1].tag = "link"
           popped == [node EXCEPT !.children = SubSeq(@, 1, n - 1)]
       IN IF cited
          THEN /\ documentSideNotes' = Changed(documentSideNotes, stack[1].at, popped)
               /\ stack' = <<RenderFrame(node.children[n].children[1]),
                             [NoFrame EXCEPT !.op = "cite_end", !.node = popped,
                                             !.at = stack[1].at, !.mark = Len(written),
                                             !.tail = <<"source">>]>>
                           \o Tail(stack)
          ELSE /\ documentSideNotes' = documentSideNotes
               /\ stack' = <<[NoFrame EXCEPT !.op = "cite_end", !.node = node,
                                             !.at = stack[1].at, !.mark = Len(written)]>>
                           \o Tail(stack)
    /\ UNCHANGED <<render_pc, doc, ctx, section, footnoteIndex, written, sites, rendered>>
    /\ UNCHANGED outside_render

\* overrides.block_quote, lines 549-553: the <figure> and the <blockquote>
\* around the children that are left, and the source in a <figcaption>.
BlockQuoteChildren ==
    /\ Resuming("cite_end")
    /\ LET quoted == SubSeq(written, stack[1].mark + 1, Len(written))
           cite == IF stack[1].tail = <<>> THEN <<>>
                   ELSE <<"<figcaption><cite>">> \o quoted \o <<"</cite></figcaption>">>
       IN /\ written' = SubSeq(written, 1, stack[1].mark)
                        \o <<"<figure class=\"blockquote\"><blockquote>">>
          /\ stack' = ChildFrames(stack[1].node.children, stack[1].at)
                      \o <<TailFrame(<<"</blockquote>">> \o cite \o <<"</figure>\n">>)>>
                      \o Tail(stack)
    /\ UNCHANGED <<render_pc, doc, ctx, section, documentSideNotes, footnoteIndex, sites,
                   rendered>>
    /\ UNCHANGED outside_render

Callout == <<"c", "a", "l", "l", "o", "u", "t">>

\* add_class(node, cls)
add_class(node, cls) ==
    [node EXCEPT !.class = IF node.class # <<>> THEN node.class \o <<" ">> \o cls ELSE cls]

\* overrides.ordered_list: a list of the style "1)" is classed callout, then
\* the default <ol>.
OrderedListOverride ==
    /\ Visiting("ordered_list")
    /\ LET node == stack[1].node
           classed == IF node.style = "1)" THEN add_class(node, Callout) ELSE node
       IN /\ documentSideNotes' = Changed(documentSideNotes, stack[1].at, classed)
          /\ written' = written \o <<"<ol">> \o Attributes(<<>>, classed.class, Undefined)
                                \o <<">", "\n">>
          /\ stack' = ChildFrames(node.children, stack[1].at)
                      \o <<TailFrame(<<"</ol>", "\n">>)>> \o Tail(stack)
    /\ UNCHANGED <<render_pc, doc, ctx, section, footnoteIndex, sites, rendered>>
    /\ UNCHANGED outside_render

\* A list item has no override: the default <li>.
ListItemDefault ==
    /\ Visiting("list_item")
    /\ written' = written \o <<"<li>", "\n">>
    /\ stack' = ChildFrames(stack[1].node.children, stack[1].at)
                \o <<TailFrame(<<"</li>", "\n">>)>> \o Tail(stack)
    /\ UNCHANGED <<render_pc, doc, ctx, section, documentSideNotes, footnoteIndex, sites,
                   rendered>>
    /\ UNCHANGED outside_render

\* The links the override takes for internal: destination.startsWith("/"),
\* "#", "./", "../", or neither "http://" nor "https://" in front.
isInternal(destination) ==
    \/ StartsWith(destination, <<"/">>)
    \/ StartsWith(destination, <<"#">>)
    \/ StartsWith(destination, <<".", "/">>)
    \/ StartsWith(destination, <<".", ".", "/">>)
    \/ /\ ~StartsWith(destination, <<"h", "t", "t", "p", ":", "/", "/">>)
       /\ ~StartsWith(destination, <<"h", "t", "t", "p", "s", ":", "/", "/">>)

InternalLink == <<"i", "n", "t", "e", "r", "n", "a", "l", "-", "l", "i", "n", "k">>

\* overrides.link: a destination that is not empty and is internal adds
\* internal-link to the class of the node; then the default rendering, <a>
\* with the href and the attributes of the node around the children.
LinkOverride ==
    /\ Visiting("link")
    /\ LET node == stack[1].node
           destination == node.destination
           class == IF destination.defined /\ destination.value # <<>>
                       /\ isInternal(destination.value)
                    THEN IF node.class # <<>> THEN node.class \o <<" ">> \o InternalLink
                         ELSE InternalLink
                    ELSE node.class
           href == IF destination.defined
                   THEN <<" href=\"">> \o EscapeHtml(destination.value) \o <<"\"">>
                   ELSE <<>>
           attributes == IF class # <<>> THEN <<" class=\"">> \o EscapeHtml(class) \o <<"\"">>
                         ELSE <<>>
       IN /\ written' = written \o <<"<a">> \o href \o attributes \o <<">">>
          /\ documentSideNotes' =
                Changed(documentSideNotes, stack[1].at, [node EXCEPT !.class = class])
          /\ stack' = ChildFrames(node.children, stack[1].at)
                      \o <<TailFrame(<<"</a>">>)>> \o Tail(stack)
    /\ UNCHANGED <<render_pc, doc, ctx, section, footnoteIndex, sites, rendered>>
    /\ UNCHANGED outside_render

\* overrides.str: <dfn> around the text of a str classed dfn, else the
\* default: the text, escaped.
StrOverride ==
    /\ Visiting("str")
    /\ LET node == stack[1].node
       IN written' = written \o IF has_class(node, <<"d", "f", "n">>)
                        THEN <<"<dfn>">> \o node.text \o <<"</dfn>">>
                        ELSE EscapeHtml(node.text)
    /\ stack' = Tail(stack)
    /\ UNCHANGED <<render_pc, doc, ctx, section, documentSideNotes, footnoteIndex, sites,
                   rendered>>
    /\ UNCHANGED outside_render

\* The index a label does not have yet is taken by the label that comes one
\* before: Object.keys(r.footnoteIndex).length, without the + 1.
NextIndexFromZero(index) == Cardinality(DOMAIN index)

\* Object.keys(r.footnoteIndex).length + 1
NextIndex(index) == Cardinality(DOMAIN index) + 1

\* Lines 655-659: the index of the label, assigned if it has none. The labels
\* of the model are no property names of Object.prototype, so a label is
\* found in r.footnoteIndex only once it was assigned.
IndexWith(index, label) ==
    IF label \in DOMAIN index /\ index[label] # 0 THEN index
    ELSE [l \in DOMAIN index \cup {label} |-> IF l = label THEN NextIndex(index) ELSE index[l]]

\* Lines 661-664: the toggle of the side note and the opening of its content.
SidenoteOpen(index) ==
    <<"<label for=\"sn-" \o ToString(index) \o "\" class=\"margin-toggle sidenote-number\"></label>",
      "<input type=\"checkbox\" id=\"sn-" \o ToString(index) \o "\" class=\"margin-toggle\"/>",
      "<span class=\"sidenote-content\">">>

\* childContent.replace(/<\/?p>/g, "")
WithoutP(pieces) == SelectSeq(pieces, LAMBDA piece : piece \notin {"<p>", "</p>"})

\* The calls of overrides.footnote_reference that wait for the children of
\* their footnote: each is a chain of frames on the call stack.
Nesting(frames) == Len(SelectSeq(frames, LAMBDA f : f.op = "footnote_end"))

\* The most calls of overrides.footnote_reference the call stack holds one
\* inside the other.
MaxNesting == 3

\* overrides.footnote_reference: a label with a footnote gets its index, if
\* it has none, and the children of the footnote are rendered in place; a
\* label with no footnote renders as nothing.
FootnoteReferenceOverride ==
    /\ Visiting("footnote_reference")
    /\ stack[1].node.text \in DOMAIN documentSideNotes => Nesting(stack) < MaxNesting
    /\ LET label == stack[1].node.text
       IN IF label \in DOMAIN documentSideNotes
          THEN /\ footnoteIndex' = IndexWith(footnoteIndex, label)
               /\ written' = written \o SidenoteOpen(footnoteIndex'[label])
               /\ sites' = Append(sites, [label |-> label, index |-> footnoteIndex'[label],
                                          body |-> <<>>])
               /\ stack' = ChildFrames(documentSideNotes[label], InFootnote(label))
                           \o <<[NoFrame EXCEPT !.op = "footnote_end", !.mark = Len(written'),
                                                 !.site = Len(sites')]>>
                           \o Tail(stack)
          ELSE /\ sites' = Append(sites, [label |-> label, index |-> 0, body |-> <<>>])
               /\ stack' = Tail(stack)
               /\ UNCHANGED <<footnoteIndex, written>>
    /\ UNCHANGED <<render_pc, doc, ctx, section, documentSideNotes, rendered>>
    /\ UNCHANGED outside_render

\* overrides.footnote_reference, line 668, with the call stack full: the call
\* of r.renderAstNode raises a RangeError, which nothing catches.
CallStackExceeded ==
    /\ Visiting("footnote_reference")
    /\ stack[1].node.text \in DOMAIN documentSideNotes
    /\ Nesting(stack) >= MaxNesting
    /\ render_pc' = "overflow"
    /\ stack' = <<>>
    /\ UNCHANGED <<doc, ctx, section, documentSideNotes, footnoteIndex, written, sites, rendered>>
    /\ UNCHANGED outside_render

\* overrides.footnote_reference, lines 669-673: the <p> and </p> are taken
\* written of what the children rendered, and the content closed.
FootnoteReferenceReturn ==
    /\ Resuming("footnote_end")
    /\ written' = SubSeq(written, 1, stack[1].mark)
              \o WithoutP(SubSeq(written, stack[1].mark + 1, Len(written)))
              \o <<"</span>">>
    /\ sites' = [sites EXCEPT ![stack[1].site].body =
                     WithoutP(SubSeq(written, stack[1].mark + 1, Len(written)))]
    /\ stack' = Tail(stack)
    /\ UNCHANGED <<render_pc, doc, ctx, section, documentSideNotes, footnoteIndex, rendered>>
    /\ UNCHANGED outside_render

\* The caller has the result of render, or its error; the next call is a
\* new pass with a new ctx and a new renderer.
RenderDone ==
    /\ render_pc \in {"returned", "raised", "overflow"}
    /\ render_pc' = "idle"
    /\ doc' = NoDoc
    /\ ctx' = [summary |-> Undefined, title |-> Undefined]
    /\ section' = NoNode
    /\ documentSideNotes' = [l \in {} |-> <<>>]
    /\ footnoteIndex' = [l \in {} |-> 0]
    /\ stack' = <<>>
    /\ written' = <<>>
    /\ sites' = <<>>
    /\ rendered' = NoHtml
    /\ UNCHANGED outside_render

RenderNext ==
    \/ \E d \in Docs \cup LinkDocs \cup SectionDocs \cup TwiceDocs \cup CyclicDocs \cup DivDocs :
          Render(d)
    \/ DocOverride
    \/ SectionOverride
    \/ SectionReturn
    \/ HeadingOverride
    \/ ParaOverride
    \/ ParaReturn
    \/ ImageOverride
    \/ ImageThrow
    \/ BlockQuoteOverride
    \/ BlockQuoteChildren
    \/ OrderedListOverride
    \/ ListItemDefault
    \/ DivOverride
    \/ SpanOverride
    \/ LinkOverride
    \/ StrOverride
    \/ FootnoteReferenceOverride
    \/ FootnoteReferenceReturn
    \/ CallStackExceeded
    \/ TemplateTail
    \/ RenderReturn
    \/ RenderDone

----------------------------------------------------------------------------
(* estimate_reading_time of djot.ts. *)

\* The most words, images and code blocks of a document whose reading time is
\* estimated.
MaxWords == 230
MaxImages == 2
MaxCodeBlocks == 2

CodeBlock(text) == [NoNode EXCEPT !.tag = "code_block", !.text = text]
\* An image with its description as children.
ImageOf(children) == [NoNode EXCEPT !.tag = "image", !.children = children]

\* node.text.trim() and, if that is not empty, t.split(/\s+/).length: the runs
\* of characters that are not white space.
WordCount(text) ==
    Cardinality({i \in 1..Len(text) :
                    /\ ~IsSpace(text[i])
                    /\ (i = 1 \/ IsSpace(text[i - 1]))})

NoCounts == [words |-> 0, images |-> 0, code_blocks |-> 0]
AddCounts(a, b) ==
    [words |-> a.words + b.words, images |-> a.images + b.images,
     code_blocks |-> a.code_blocks + b.code_blocks]

RECURSIVE SumCounts(_, _, _)
\* The sum of cs[lo..hi].
SumCounts(cs, lo, hi) ==
    IF lo > hi THEN NoCounts
    ELSE IF lo = hi THEN cs[lo]
    ELSE LET mid == (lo + hi) \div 2
         IN AddCounts(SumCounts(cs, lo, mid), SumCounts(cs, mid + 1, hi))

RECURSIVE visit(_)
\* function visit(node) of estimate_reading_time: what the visit of the node
\* and of what is under it adds to the three counts.
visit(node) ==
    LET own == CASE node.tag = "str" -> [NoCounts EXCEPT !.words = WordCount(node.text)]
                 [] node.tag = "image" -> [NoCounts EXCEPT !.images = 1]
                 [] node.tag = "code_block" -> [NoCounts EXCEPT !.code_blocks = 1]
                 [] OTHER -> NoCounts
        under == [k \in 1..Len(node.children) |-> visit(node.children[k])]
    IN IF node.tag = "code_block" THEN own
       ELSE AddCounts(own, SumCounts(under, 1, Len(under)))

\* Math.floor in the place of Math.ceil.
ReadingTimeFloor(words, images, code_blocks) ==
    (4 * words + 153 * images + 450 * code_blocks) \div 900

\* Math.ceil(words / 225 + images * 0.17 + code_blocks * 0.5), in nine
\* hundredths of a minute: 1/225 = 4/900, 0.17 = 153/900, 0.5 = 450/900. For
\* the counts of the model the sum in doubles has the same ceiling as the
\* exact sum.
ReadingTime(words, images, code_blocks) ==
    (4 * words + 153 * images + 450 * code_blocks + 899) \div 900

estimate_reading_time(d) ==
    LET counts == visit(d)
    IN ReadingTime(counts.words, counts.images, counts.code_blocks)

Word == <<"w">>
\* What a document grows by: a word more in its first text, an image, an image
\* with a description of two words, a code block.
Growths == {"word", "image", "described", "code_block"}

\* The documents the estimates start from: a text of white space, of one word,
\* of two words between white space.
ReadingTexts == {<<" ", "\n">>, Word, <<" ">> \o Word \o <<"\t", " ">> \o Word \o <<" ">>}
ReadingDocs == {DocNode(<<Para(<<Str(t)>>)>>) : t \in ReadingTexts}

\* The document with one node more.
Grown(d, g) ==
    CASE g = "word" ->
            [d EXCEPT !.children[1].children[1].text = @ \o <<" ">> \o Word]
      [] g = "image" -> [d EXCEPT !.children = Append(@, Para(<<ImageOf(<<>>)>>))]
      [] g = "described" ->
            [d EXCEPT !.children =
                Append(@, Para(<<ImageOf(<<Str(Word \o <<" ">> \o Word)>>)>>))]
      [] g = "code_block" ->
            [d EXCEPT !.children = Append(@, CodeBlock(Word \o <<" ">> \o Word))]

NoReading == DocNode(<<>>)

ReadingIdle ==
    /\ reading_doc = NoReading
    /\ reading_counts = NoCounts
    /\ reading_mins = 0

\* estimate_reading_time(doc)
EstimateReadingTime(d) ==
    /\ reading_doc' = d
    /\ reading_counts' = visit(d)
    /\ reading_mins' = estimate_reading_time(d)
    /\ UNCHANGED outside_reading

\* The first estimate.
ReadingCall(d) ==
    /\ reading_doc = NoReading
    /\ render_pc = "idle" /\ hl_pc = "idle" /\ build_pc = "idle"
    /\ EstimateReadingTime(d)

\* The estimate of the document once it has grown.
ReadingGrow(g) ==
    /\ reading_doc # NoReading
    /\ g = "word" => reading_counts.words < MaxWords
    /\ g \in {"image", "described"} => reading_counts.images < MaxImages
    /\ g = "described" => reading_counts.words + 2 <= MaxWords
    /\ g = "code_block" => reading_counts.code_blocks < MaxCodeBlocks
    /\ EstimateReadingTime(Grown(reading_doc, g))

ReadingNext ==
    \/ \E d \in ReadingDocs : ReadingCall(d)
    \/ \E g \in Growths : ReadingGrow(g)
----------------------------------------------------------------------------
(* build_table_contents of djot.ts. *)

\* The most characters of the text of a heading.
MaxTitle == 4

\* \w of a regular expression: [A-Za-z0-9_]. The headings of the model use
\* lower-case letters.
IsWord(c) == c \in Letters \cup Digits \cup {"_"}
IsHyphen(c) == c = "-"
\* [^\w\-]
IsNeitherWordNorHyphen(c) == ~IsWord(c) /\ ~IsHyphen(c)

\* The length of the longest run of characters of the class around t[i].
RunLength(t, In(_), i) ==
    LET first == Least({j \in 1..i : \A k \in j..i : In(t[k])})
        last == Greatest({j \in i..Len(t) : \A k \in i..j : In(t[k])})
    IN last - first + 1

\* t.replace(/[class]{least,}/g, with): every longest run of at least so many
\* characters of the class is replaced, from left to right.
ReplaceRuns(t, In(_), least, with) ==
    Concat([i \in 1..Len(t) |->
               IF ~In(t[i]) \/ RunLength(t, In, i) < least THEN <<t[i]>>
               ELSE IF i = 1 \/ ~In(t[i - 1]) THEN with
               ELSE <<>>])

\* .replace(/\s+/g, "-")
HyphenateSpaces(t) == ReplaceRuns(t, IsSpace, 1, <<"-">>)

\* .replace(/[^\w\-]+/g, "")
RemoveOthers(t) == ReplaceRuns(t, IsNeitherWordNorHyphen, 1, <<>>)

\* The chain with its third replacement left out.
CollapseHyphensNone(t) == t

\* .replace(/\-\-+/g, "-")
CollapseHyphens(t) == ReplaceRuns(t, IsHyphen, 2, <<"-">>)

\* .replace(/^-+/, "")
StripLeadingHyphens(t) ==
    LET solid == {i \in 1..Len(t) : ~IsHyphen(t[i])}
    IN IF solid = {} THEN <<>> ELSE SubSeq(t, Least(solid), Len(t))

\* .replace(/-+$/, "")
StripTrailingHyphens(t) ==
    LET solid == {i \in 1..Len(t) : ~IsHyphen(t[i])}
    IN IF solid = {} THEN <<>> ELSE SubSeq(t, 1, Greatest(solid))

\* const slug = title.replace(...).replace(...).replace(...).replace(...).replace(...)
Slug(title) ==
    StripTrailingHyphens(StripLeadingHyphens(CollapseHyphens(RemoveOthers(HyphenateSpaces(title)))))

\* The characters of the texts of the headings: word characters, white space
\* in and across lines, a hyphen, punctuation.
TitleChars == {"a", "_", " ", "\n", "-", "!"}

\* The texts of the headings: the parser leaves no white space at their ends.
Titles ==
    {t \in StringsUpTo({<<c>> : c \in TitleChars}, MaxTitle) :
        t = <<>> \/ (~IsSpace(t[1]) /\ ~IsSpace(t[Len(t)]))}

\* The documents build_table_contents is called with: a section with its
\* heading, of level 1 or 2.
TocDocs ==
    {DocNode(<<Section(<<"s">>, <<Heading(level, <<Str(t)>>)>>)>>) :
        level \in {1, 2}, t \in Titles}

NoToc == DocNode(<<>>)

TocIdle ==
    /\ toc_pc = "idle"
    /\ toc_doc = NoToc
    /\ toc_stack = <<>>
    /\ headings = <<>>

\* build_table_contents(doc): visit(doc) is to be called.
BuildTableContents(d) ==
    /\ toc_pc = "idle"
    /\ render_pc = "idle" /\ hl_pc = "idle" /\ build_pc = "idle"
    /\ toc_pc' = "visiting"
    /\ toc_doc' = d
    /\ toc_stack' = <<d>>
    /\ headings' = <<>>
    /\ UNCHANGED outside_toc

\* visit(node) for a heading: a heading of level 2 or more with a text that
\* is not empty is pushed with its slug; then the children are visited.
VisitHeading ==
    /\ toc_pc = "visiting"
    /\ toc_stack # <<>>
    /\ toc_stack[1].tag = "heading"
    /\ LET node == toc_stack[1]
           title == IF node.level > 1 THEN get_string_content(node) ELSE <<>>
       IN /\ headings' = IF title # <<>>
                         THEN Append(headings, [id |-> Slug(title), title |-> title,
                                                level |-> node.level])
                         ELSE headings
          /\ toc_stack' = node.children \o Tail(toc_stack)
    /\ UNCHANGED <<toc_pc, toc_doc>>
    /\ UNCHANGED outside_toc

\* visit(node) for any other node: the children are visited, in order.
VisitOther ==
    /\ toc_pc = "visiting"
    /\ toc_stack # <<>>
    /\ toc_stack[1].tag # "heading"
    /\ toc_stack' = toc_stack[1].children \o Tail(toc_stack)
    /\ UNCHANGED <<toc_pc, toc_doc, headings>>
    /\ UNCHANGED outside_toc

\* return { titles: headings }
TocReturn ==
    /\ toc_pc = "visiting"
    /\ toc_stack = <<>>
    /\ toc_pc' = "returned"
    /\ UNCHANGED <<toc_doc, toc_stack, headings>>
    /\ UNCHANGED outside_toc

\* The caller has the table; the next call starts from an empty one.
TocDone ==
    /\ toc_pc = "returned"
    /\ toc_pc' = "idle"
    /\ toc_doc' = NoToc
    /\ toc_stack' = <<>>
    /\ headings' = <<>>
    /\ UNCHANGED outside_toc

TocNext ==
    \/ \E d \in TocDocs : BuildTableContents(d)
    \/ VisitHeading
    \/ VisitOther
    \/ TocReturn
    \/ TocDone

----------------------------------------------------------------------------
(* build, collect_posts and update_file of main.ts. *)

\* The most posts under contents/posts.
MaxPosts == 2

\* const pages
Pages == <<"about", "blogroll", "ai_transparency", "style_guidelines">>

\* The image is classed video and has no destination.
IsBrokenVideo(node) ==
    node.tag = "image" /\ has_class(node, Video) /\ ~node.destination.defined

RECURSIVE HasBrokenVideo(_)
\* A video with no destination sits at or under the node.
HasBrokenVideo(node) ==
    \/ IsBrokenVideo(node)
    \/ \E i \in 1..Len(node.children) : HasBrokenVideo(node.children[i])

\* A video with no destination sits somewhere in the document: in its body
\* or in the body of one of its footnotes.
DocHasBrokenVideo(d) ==
    \/ HasBrokenVideo(DocNode(d.children))
    \/ \E l \in DOMAIN d.footnotes : HasBrokenVideo(DocNode(d.footnotes[l]))

RECURSIVE ReachesBrokenVideo(_, _)
\* A video with no destination sits where the render pass comes by: not
\* under a kbd span, whose text alone is read, and in a footnote only through
\* a reference to it.
ReachesBrokenVideo(node, footnotes) ==
    CASE node.tag = "image" -> IsBrokenVideo(node)
      [] node.tag = "span" /\ has_class(node, Kbd)
            /\ ~has_class(node, <<"c", "o", "d", "e">>)
            /\ ~has_class(node, <<"d", "f", "n">>) -> FALSE
      [] node.tag = "footnote_reference" ->
            /\ node.text \in DOMAIN footnotes
            /\ \E i \in 1..Len(footnotes[node.text]) :
                  ReachesBrokenVideo(footnotes[node.text][i], footnotes)
      [] OTHER ->
            \E i \in 1..Len(node.children) : ReachesBrokenVideo(node.children[i], footnotes)

\* A document that renders, and one with a video with no destination.
GoodDoc == [children |-> <<Para(<<Str(<<"x">>)>>)>>, footnotes |-> [l \in {} |-> <<>>]]
BrokenDoc == [children |-> <<Para(<<BrokenVideo>>)>>, footnotes |-> [l \in {} |-> <<>>]]

\* djot.render(ast, ...) raises: the pass comes by a video with no destination.
RenderRaises(d) == ReachesBrokenVideo(DocNode(d.children), d.footnotes)

\* `/${y}/${m}/${d}/${slug}.html` of the post at the index i of the walk, and
\* `${page}.html`.
PostPath(i) == "post" \o ToString(i) \o ".html"
PagePath(page) == page \o ".html"

\* The output files of the documents, and all the output files.
DocPaths == {PostPath(i) : i \in 1..MaxPosts} \cup {PagePath(Pages[k]) : k \in 1..Len(Pages)}
OutputPaths == DocPaths \cup {"index.html", "feed.xml", "assets"}

\* ./dist when build starts: empty, or as a build before left it.
EmptyDist == [p \in OutputPaths |-> "absent"]
OldDist == [p \in OutputPaths |-> "old"]

RECURSIVE DocSeqs(_)
\* The documents of at most n posts.
DocSeqs(n) ==
    IF n = 0 THEN {<<>>}
    ELSE LET shorter == DocSeqs(n - 1)
         IN shorter \cup {Append(t, d) : t \in {u \in shorter : Len(u) = n - 1},
                                          d \in {GoodDoc, BrokenDoc}}

\* The contents of the pages: all render, or one of them does not.
PageDirs ==
    {[page \in {Pages[k] : k \in 1..Len(Pages)} |-> GoodDoc]}
    \cup {[page \in {Pages[k] : k \in 1..Len(Pages)} |->
              IF page = Pages[b] THEN BrokenDoc ELSE GoodDoc] : b \in 1..Len(Pages)}

BuildIdle ==
    /\ build_pc = "idle"
    /\ clean = FALSE
    /\ posts_dir = <<>>
    /\ pages_dir = [page \in {Pages[k] : k \in 1..Len(Pages)} |-> GoodDoc]
    /\ posts = <<>>
    /\ cursor = 0
    /\ dist = EmptyDist
    /\ temp = "none"
    /\ uf_pc = "none"
    /\ uf_path = ""
    /\ returned = {}

\* main: the build command calls build(clean, profile) once; ./dist and
\* ./contents are as the environment has them.
BuildCall(c, ps, pg, before) ==
    /\ build_pc = "idle"
    /\ render_pc = "idle" /\ hl_pc = "idle"
    /\ build_pc' = "clean"
    /\ clean' = c
    /\ posts_dir' = ps
    /\ pages_dir' = pg
    /\ dist' = before
    /\ UNCHANGED <<posts, cursor, temp, uf_pc, uf_path, returned>>
    /\ UNCHANGED outside_build

\* build, lines 179-188: ./dist is removed if clean, and made.
BuildClean ==
    /\ build_pc = "clean"
    /\ dist' = IF clean THEN EmptyDist ELSE dist
    /\ build_pc' = "collect"
    /\ cursor' = 1
    /\ UNCHANGED <<clean, posts_dir, pages_dir, posts, temp, uf_pc, uf_path, returned>>
    /\ UNCHANGED outside_build

\* collect_posts, the body of the loop over the entries, lines 309-355: the
\* post is read, parsed and rendered; a render that raises ends the build.
CollectPost ==
    /\ build_pc = "collect"
    /\ cursor <= Len(posts_dir)
    /\ IF RenderRaises(posts_dir[cursor])
       THEN /\ build_pc' = "failed"
            /\ UNCHANGED <<posts, cursor, returned>>
       ELSE /\ posts' = Append(posts,
                   [index |-> cursor,
                    reading_time_mins |->
                        estimate_reading_time(DocNode(posts_dir[cursor].children))])
            /\ returned' = returned \cup {PostPath(cursor)}
            /\ cursor' = cursor + 1
            /\ UNCHANGED build_pc
    /\ UNCHANGED <<clean, posts_dir, pages_dir, dist, temp, uf_pc, uf_path>>
    /\ UNCHANGED outside_build

\* posts.sort((l, r) => l.path < r.path ? 1 : -1): the walk gives the paths in
\* rising order, the sort turns them round.
SortPosts(ps) == [k \in 1..Len(ps) |-> ps[Len(ps) + 1 - k]]

\* collect_posts, lines 357-358.
CollectReturn ==
    /\ build_pc = "collect"
    /\ cursor > Len(posts_dir)
    /\ posts' = SortPosts(posts)
    /\ build_pc' = "posts"
    /\ cursor' = 1
    /\ UNCHANGED <<clean, posts_dir, pages_dir, dist, temp, uf_pc, uf_path, returned>>
    /\ UNCHANGED outside_build

\* The path of the update_file call build is at.
TargetPath ==
    CASE build_pc = "posts" -> PostPath(posts[cursor].index)
      [] build_pc = "index" -> "index.html"
      [] build_pc = "feed" -> "feed.xml"
      [] build_pc = "page_write" -> PagePath(Pages[cursor])

\* update_file, lines 238-241: the directories and the temporary file are made.
UpdateFileCall ==
    /\ uf_pc = "none"
    /\ \/ build_pc = "posts" /\ cursor <= Len(posts)
       \/ build_pc \in {"index", "feed", "page_write"}
    /\ uf_pc' = "temp"
    /\ uf_path' = TargetPath
    /\ temp' = "empty"
    /\ UNCHANGED <<build_pc, clean, posts_dir, pages_dir, posts, cursor, dist, returned>>
    /\ UNCHANGED outside_build

\* update_file that goes on without the content in the temporary file.
UpdateFileNoWrite ==
    /\ uf_pc = "temp"
    /\ uf_pc' = "written"
    /\ UNCHANGED <<build_pc, clean, posts_dir, pages_dir, posts, cursor, dist, temp, uf_path,
                   returned>>
    /\ UNCHANGED outside_build

\* update_file, lines 242-246: the content is written to the temporary file.
UpdateFileWrite ==
    /\ uf_pc = "temp"
    /\ uf_pc' = "written"
    /\ temp' = "complete"
    /\ UNCHANGED <<build_pc, clean, posts_dir, pages_dir, posts, cursor, dist, uf_path,
                   returned>>
    /\ UNCHANGED outside_build

\* update_file, line 247: Deno.rename(temp, path); build goes on after the call.
UpdateFileRename ==
    /\ uf_pc = "written"
    /\ dist' = [dist EXCEPT ![uf_path] = IF temp = "complete" THEN "new" ELSE "partial"]
    /\ temp' = "none"
    /\ uf_pc' = "none"
    /\ build_pc' = CASE build_pc = "posts" -> "posts"
                     [] build_pc = "index" -> "feed"
                     [] build_pc = "feed" -> "pages"
                     [] build_pc = "page_write" -> "pages"
    /\ cursor' = CASE build_pc = "posts" -> cursor + 1
                   [] build_pc = "index" -> cursor
                   [] build_pc = "feed" -> 1
                   [] build_pc = "page_write" -> cursor + 1
    /\ UNCHANGED <<clean, posts_dir, pages_dir, posts, uf_path, returned>>
    /\ UNCHANGED outside_build

\* build, lines 190-197: the loop over the posts is over.
PostsWritten ==
    /\ build_pc = "posts"
    /\ uf_pc = "none"
    /\ cursor > Len(posts)
    /\ build_pc' = "index"
    /\ UNCHANGED <<clean, posts_dir, pages_dir, posts, cursor, dist, temp, uf_pc, uf_path,
                   returned>>
    /\ UNCHANGED outside_build

\* build, lines 205-209: the page is read, parsed and rendered.
RenderPage ==
    /\ build_pc = "pages"
    /\ cursor <= Len(Pages)
    /\ IF RenderRaises(pages_dir[Pages[cursor]])
       THEN /\ build_pc' = "failed"
            /\ UNCHANGED returned
       ELSE /\ build_pc' = "page_write"
            /\ returned' = returned \cup {PagePath(Pages[cursor])}
    /\ UNCHANGED <<clean, posts_dir, pages_dir, posts, cursor, dist, temp, uf_pc, uf_path>>
    /\ UNCHANGED outside_build

\* build, lines 212-218: update_path for css/* and assets/*.
UpdatePaths ==
    /\ build_pc = "pages"
    /\ cursor > Len(Pages)
    /\ dist' = [dist EXCEPT !["assets"] = "new"]
    /\ build_pc' = "fmt"
    /\ UNCHANGED <<clean, posts_dir, pages_dir, posts, cursor, temp, uf_pc, uf_path, returned>>
    /\ UNCHANGED outside_build

\* build, lines 220-230: deno fmt ./dist, another program, formats the files
\* this build has written where they are; then the figures are printed.
FormatDist ==
    /\ build_pc = "fmt"
    /\ build_pc' = "done"
    /\ dist' = [p \in OutputPaths |-> IF dist[p] = "new" THEN "formatted" ELSE dist[p]]
    /\ UNCHANGED <<clean, posts_dir, pages_dir, posts, cursor, temp, uf_pc, uf_path, returned>>
    /\ UNCHANGED outside_build

BuildNext ==
    \/ \E c \in BOOLEAN, ps \in DocSeqs(MaxPosts), pg \in PageDirs,
          before \in {EmptyDist, OldDist} : BuildCall(c, ps, pg, before)
    \/ BuildClean
    \/ CollectPost
    \/ CollectReturn
    \/ UpdateFileCall
    \/ UpdateFileWrite
    \/ UpdateFileRename
    \/ PostsWritten
    \/ RenderPage
    \/ UpdatePaths
    \/ FormatDist

----------------------------------------------------------------------------
(* main and watch of main.ts: the build and watch commands, the rebuild     *)
(* loop, the debounced signal. A step is a task of the event loop together  *)
(* with what runs up to the next await; the continuation of a promise that  *)
(* is already resolved runs before any timer, file event or end of a read.  *)

\* The most events Deno.watchFs yields before it ends or the model stops.
MaxEvents == 2

\* The most calls of highlight of one build.
MaxHighlightCalls == 1

\* The commands of main that build the site.
Commands == {"build", "watch"}

\* event.kind
EventKinds == {"access", "modify"}

MainIdle ==
    /\ main_pc = "start"
    /\ command = "none"
    /\ loop_pc = "none"
    /\ signal = "none"
    /\ timer = FALSE
    /\ watcher = "none"
    /\ fs_events = 0
    /\ running = 0
    /\ build_id = 0
    /\ hl_calls = 0
    /\ observed = {}
    /\ owed = FALSE
    /\ allowed = 0

\* The rebuild loop can go on: the promise it awaits is resolved.
LoopRunnable == loop_pc = "awaiting_signal" /\ signal \in {"true", "false"}

\* A task of the event loop can start: the process has not ended, and no
\* continuation is due before it.
TaskCanStart == main_pc # "crashed" /\ ~LoopRunnable

\* signal.resolve(value): a promise that is resolved keeps its value.
Resolve(promise, value) == IF promise = "pending" THEN value ELSE promise

\* main: cli.command is build or watch, and initTreeSitter() is called. (In
\* the other version of main.ts the call is at the top level of the module,
\* before main.)
Main(cmd) ==
    /\ main_pc = "start"
    /\ hl_pc = "idle" /\ render_pc = "idle" /\ build_pc = "idle" /\ toc_pc = "idle"
    /\ main_pc' = "init"
    /\ command' = cmd
    /\ UNCHANGED <<loop_pc, signal, timer, watcher, fs_events, running, build_id, hl_calls,
                   observed, owed, allowed>>
    /\ UNCHANGED <<hl_vars, outside_main>>

\* initTreeSitter(), called by main.
MainInitTreeSitter == main_pc = "init" /\ InitTreeSitter

\* main goes on without the await.
InitNotAwaited == TRUE

\* await initTreeSitter(): main goes on once the call has returned, and the
\* last statement of initTreeSitter is initialized = true.
InitAwaited == initialized

\* The build command: await initTreeSitter(); await build(clean, profile).
MainBuild ==
    /\ main_pc = "init"
    /\ command = "build"
    /\ InitAwaited
    /\ main_pc' = "build"
    /\ running' = running + 1
    /\ hl_calls' = 0
    /\ UNCHANGED <<command, loop_pc, signal, timer, watcher, fs_events, build_id, observed,
                   owed, allowed>>
    /\ UNCHANGED <<hl_vars, outside_main>>

\* The watch command: await initTreeSitter(); watch(clean, profile) up to its
\* first await: the loop is started and awaits signal.promise, the signal is
\* resolved with true, rebuild_debounced is made, Deno.watchFs is opened.
Watch ==
    /\ main_pc = "init"
    /\ command = "watch"
    /\ InitAwaited
    /\ main_pc' = "watching"
    /\ loop_pc' = "awaiting_signal"
    /\ signal' = Resolve("pending", "true")
    /\ watcher' = "open"
    /\ UNCHANGED <<command, timer, fs_events, running, build_id, hl_calls, observed, owed,
                   allowed>>
    /\ UNCHANGED <<hl_vars, outside_main>>

\* The loop calls build and goes on at once, without the await.
LoopRebuildNoAwait ==
    /\ LoopRunnable
    /\ signal = "true"
    /\ signal' = "pending"
    /\ build_id' = build_id + 1
    /\ running' = running + 1
    /\ hl_calls' = 0
    /\ owed' = FALSE
    /\ loop_pc' = "awaiting_signal"
    /\ UNCHANGED <<main_pc, command, timer, watcher, fs_events, observed, allowed>>
    /\ UNCHANGED <<hl_vars, outside_main>>

\* while (await signal.promise) with true: signal = Promise.withResolvers(),
\* build_id += 1, await build(clean, profile).
LoopRebuild ==
    /\ LoopRunnable
    /\ signal = "true"
    /\ signal' = "pending"
    /\ build_id' = build_id + 1
    /\ running' = running + 1
    /\ hl_calls' = 0
    /\ owed' = FALSE
    /\ loop_pc' = "awaiting_build"
    /\ UNCHANGED <<main_pc, command, timer, watcher, fs_events, observed, allowed>>
    /\ UNCHANGED <<hl_vars, outside_main>>

\* while (await signal.promise) with false: the loop ends.
LoopExit ==
    /\ LoopRunnable
    /\ signal = "false"
    /\ loop_pc' = "exited"
    /\ UNCHANGED <<main_pc, command, signal, timer, watcher, fs_events, running, build_id,
                   hl_calls, observed, owed, allowed>>
    /\ UNCHANGED <<hl_vars, outside_main>>

\* for await (const event of Deno.watchFs(...)): an access is passed over;
\* any other event calls rebuild_debounced(), which sets its timer anew.
FsEvent(kind) ==
    /\ TaskCanStart
    /\ main_pc = "watching"
    /\ watcher = "open"
    /\ fs_events < MaxEvents
    /\ fs_events' = fs_events + 1
    /\ timer' = IF kind = "access" THEN timer ELSE TRUE
    /\ UNCHANGED <<main_pc, command, loop_pc, signal, watcher, running, build_id, hl_calls,
                   observed, owed, allowed>>
    /\ UNCHANGED <<hl_vars, outside_main>>

\* The timer of rebuild_debounced fires after 16 ms: signal.resolve(true),
\* on the promise that signal holds then.
DebounceFires ==
    /\ TaskCanStart
    /\ timer
    /\ timer' = FALSE
    /\ signal' = Resolve(signal, "true")
    /\ owed' = TRUE
    /\ UNCHANGED <<main_pc, command, loop_pc, watcher, fs_events, running, build_id, hl_calls,
                   observed, allowed>>
    /\ UNCHANGED <<hl_vars, outside_main>>

\* Deno.watchFs ends: the for await is left, signal.resolve(false), and watch
\* and main return.
WatchFsEnds ==
    /\ TaskCanStart
    /\ main_pc = "watching"
    /\ watcher = "open"
    /\ watcher' = "ended"
    /\ signal' = Resolve(signal, "false")
    /\ allowed' = build_id + (IF signal = "true" THEN 1 ELSE 0)
    /\ main_pc' = "returned"
    /\ UNCHANGED <<command, loop_pc, timer, fs_events, running, build_id, hl_calls, observed,
                   owed>>
    /\ UNCHANGED <<hl_vars, outside_main>>

\* The build that runs renders a code block: overrides.code_block calls
\* highlight, and getParser reads initialized.
BuildHighlights ==
    /\ TaskCanStart
    /\ running > 0
    /\ hl_calls < MaxHighlightCalls
    /\ hl_calls' = hl_calls + 1
    /\ observed' = observed \cup {initialized}
    /\ UNCHANGED <<main_pc, command, loop_pc, signal, timer, watcher, fs_events, running,
                   build_id, owed, allowed>>
    /\ UNCHANGED <<hl_vars, outside_main>>

\* A call of build returns: main returns, or the loop awaits signal.promise.
BuildReturns ==
    /\ TaskCanStart
    /\ running > 0
    /\ running' = running - 1
    /\ main_pc' = IF command = "build" THEN "returned" ELSE main_pc
    /\ loop_pc' = IF loop_pc = "awaiting_build" THEN "awaiting_signal" ELSE loop_pc
    /\ UNCHANGED <<command, signal, timer, watcher, fs_events, build_id, hl_calls, observed,
                   owed, allowed>>
    /\ UNCHANGED <<hl_vars, outside_main>>

\* A call of build raises (render raises on a post, a file cannot be
\* written): nothing catches it, in main or in the loop, and the process
\* ends with the error.
BuildThrows ==
    /\ TaskCanStart
    /\ running > 0
    /\ running' = running - 1
    /\ main_pc' = "crashed"
    /\ loop_pc' = IF loop_pc = "awaiting_build" THEN "dead" ELSE loop_pc
    /\ UNCHANGED <<command, signal, timer, watcher, fs_events, build_id, hl_calls, observed,
                   owed, allowed>>
    /\ UNCHANGED <<hl_vars, outside_main>>

MainNext ==
    \/ \E cmd \in Commands : Main(cmd)
    \/ MainInitTreeSitter
    \/ MainBuild
    \/ Watch
    \/ LoopRebuild
    \/ LoopExit
    \/ \E kind \in EventKinds : FsEvent(kind)
    \/ DebounceFires
    \/ WatchFsEnds
    \/ BuildHighlights
    \/ BuildReturns
    \/ BuildThrows

\* What the event loop owes: a continuation that is due runs, a timer that
\* is set fires, a build that runs comes to an end.
MainFairness ==
    /\ WF_vars(MainInitTreeSitter)
    /\ WF_vars(MainBuild)
    /\ WF_vars(Watch)
    /\ WF_vars(LoopRebuild)
    /\ WF_vars(LoopExit)
    /\ WF_vars(DebounceFires)
    /\ WF_vars(BuildReturns \/ BuildThrows)

----------------------------------------------------------------------------
(* The specifications. *)

Init == HlInit /\ RenderIdle /\ BuildIdle /\ ReadingIdle /\ TocIdle /\ MainIdle

\* The highlighter alone: calls of highlight from an idle renderer.
Next == HlNext

Spec == Init /\ [][Next]_vars

\* The render pass alone.
SpecRender == Init /\ [][RenderNext]_vars
SpecBuild == Init /\ [][BuildNext]_vars
SpecReading == Init /\ [][ReadingNext]_vars
SpecToc == Init /\ [][TocNext]_vars

\* The build and watch commands, and the same with what the event loop owes.
SpecMain == Init /\ [][MainNext]_vars
SpecMainFair == Init /\ [][MainNext]_vars /\ MainFairness

----------------------------------------------------------------------------
(* Reading the output of highlight. *)

\* s has as many span open tags as span close tags, and no prefix of s has
\* more span close tags than span open tags.
SpansBalanced(s) ==
    LET tags == {i \in 0..(Len(s) - 1) : s[i + 1] = "<"}
        opens == {i \in tags : MatchAt(s, i, <<"<", "s", "p", "a", "n", " ">>)}
        closes == {i \in tags : MatchAt(s, i, CloseSpan)}
    IN /\ Cardinality(opens) = Cardinality(closes)
       /\ \A c \in closes :
             Cardinality({d \in closes : d <= c}) <= Cardinality({o \in opens : o < c})

\* s with every tag <...> removed.
StripTags(s) ==
    LET lt == {i \in 1..Len(s) : s[i] = "<"}
        gt == {i \in 1..Len(s) : s[i] = ">"}
        InTag(i) == \E j \in lt : j <= i /\ \A k \in gt : k <= j \/ k >= i
        kept == SelectSeq([i \in 1..Len(s) |-> i], LAMBDA i : ~InTag(i))
    IN [k \in 1..Len(kept) |-> s[kept[k]]]

\* The digits of the markers <D> of a text, in order.
MarkersOf(s) ==
    LET at == SelectSeq([i \in 1..Len(s) |-> i], LAMBDA i : MarkerAt(s, i - 1))
    IN [k \in 1..Len(at) |-> s[at[k] + 1]]

HasMarker(s) == \E i \in 0..(Len(s) - 1) : MarkerAt(s, i)

IconPrefix ==
    <<"<", "i", " ", "c", "l", "a", "s", "s", "=", "\"", "c", "a", "l", "l", "o", "u", "t",
      "\"", " ", "d", "a", "t", "a", "-", "v", "a", "l", "u", "e", "=", "\"">>

\* The values of the callout icons of an output line, in order.
IconsOf(s) ==
    LET at == SelectSeq([i \in 1..Len(s) |-> i],
                        LAMBDA i : MatchAt(s, i - 1, IconPrefix) /\ i + Len(IconPrefix) <= Len(s))
    IN [k \in 1..Len(at) |-> s[at[k] + Len(IconPrefix)]]

\* The output line carries the hl-line modifier class.
IsHlLine(s) ==
    StartsWith(s, <<"<", "s", "p", "a", "n", " ", "c", "l", "a", "s", "s", "=", "\"",
                    "l", "i", "n", "e", " ", "h", "l", "-", "l", "i", "n", "e", "\"">>)

\* highlight has returned a fragment.
Returned == hl_pc = "done" /\ result.status = "returned"

\* The lines of the fragment's code element.
OutputLines == Split(lines, "\n")

\* The output line at index n (from 1) is the rendering of the text line t:
\* without its tags it is t, escaped.
RendersLine(n, t) == n <= Len(OutputLines) /\ StripTags(OutputLines[n]) = EscapeHtml(t)

----------------------------------------------------------------------------
(* Claims about the highlighter. *)

\* C1: whatever the source text, the tokenization path and the captures, the
\* fragment highlight returns has as many span open tags as span close tags,
\* and no prefix of it has more close tags than open tags.
C1_SpansBalanced == Returned => SpansBalanced(result.value)

\* C1 witness: a grammar-path fragment of two captures of one range that
\* spans a line break.
C1_Witness ==
    /\ Returned
    /\ branch = "grammar"
    /\ Len(tokens) = 2
    /\ tokens[1].start = tokens[2].start /\ tokens[1].end = tokens[2].end
    /\ \E i \in (tokens[1].start + 1)..tokens[1].end : src[i] = "\n"
    /\ Len(OutputLines) = 2

\* C2: when exactly one callout marker <N> is on source line L, the output
\* line of line L renders that line and has exactly one callout icon, of value N.
C2_CalloutOnItsLine ==
    Returned =>
        \A L \in 1..Len(Split(source, "\n")) :
            Len(MarkersOf(Split(source, "\n")[L])) = 1 =>
                /\ RendersLine(L, Split(src, "\n")[L])
                /\ IconsOf(OutputLines[L]) = MarkersOf(Split(source, "\n")[L])

\* C3: after callout extraction no marker <D> is left: none in the text that
\* goes to tokenization, none in the output of highlight.
C3_NoMarkerLeft ==
    /\ hl_pc \in {"add_spans", "resplit", "wrap"} => ~HasMarker(src)
    /\ Returned => ~HasMarker(src) /\ ~HasMarker(result.value)

\* C4: with no language, the output of highlight with its tags stripped is the
\* source, HTML-escaped once, for every highlight_spec.
C4_PlainPassthrough ==
    (Returned /\ language = NoLanguage) => StripTags(lines) = EscapeHtml(source)

\* The set of line numbers a well-formed highlight_spec of the model denotes.
DenotedLines(hs) ==
    CASE hs = Given(<<"2">>) -> {2}
      [] hs = Given(<<"1", "-", "2">>) -> {1, 2}
      [] hs = Given(Spec245) -> {2, 4, 5}
      [] OTHER -> {}

WellFormedSpecs == {Given(<<"2">>), Given(<<"1", "-", "2">>), Given(Spec245)}

\* C5: for a highlight_spec denoting the set S, the output line of source line
\* n renders that line and carries hl-line exactly when n is in S, on every path.
C5_HlLineIffInSpec ==
    (Returned /\ highlight_spec \in WellFormedSpecs) =>
        \A n \in 1..Len(Split(TrimEnd(src), "\n")) :
            /\ RendersLine(n, Split(TrimEnd(src), "\n")[n])
            /\ IsHlLine(OutputLines[n]) <=> n \in DenotedLines(highlight_spec)

\* The body highlight gives the text when no language is named.
PlainBody == Join(WrapLines(Resplit(TrimEnd(PlainTemplate(src))), spec, callouts), <<"\n">>)

\* C6: highlight never raises, and with no grammar for the language, an
\* uninitialised registry or a throwing parser its body is that of plain text.
C6_NeverRaises ==
    hl_pc = "done" =>
        /\ result.status = "returned"
        /\ branch \in {"no_grammar", "catch"} =>
              TrimStart(StripTags(lines)) = TrimStart(StripTags(PlainBody))

----------------------------------------------------------------------------
(* Reading a document and the state of a render pass. *)

\* The paragraph is rendered as a <figure> of one image.
IsFigure(node) == Len(node.children) = 1 /\ node.children[1].tag = "image"

RECURSIVE ParasUnder(_)
\* The paragraphs at or under a node that are no figures, in document order.
ParasUnder(node) ==
    (IF node.tag = "para" /\ ~IsFigure(node) THEN <<node>> ELSE <<>>)
    \o Concat([i \in 1..Len(node.children) |-> ParasUnder(node.children[i])])

RECURSIVE HeadingsUnder(_)
\* The headings of level 1 at or under a node, in document order.
HeadingsUnder(node) ==
    (IF node.tag = "heading" /\ node.level = 1 THEN <<node>> ELSE <<>>)
    \o Concat([i \in 1..Len(node.children) |-> HeadingsUnder(node.children[i])])

\* The references visited so far whose label has a footnote.
DefinedSites == SelectSeq(sites, LAMBDA site : site.label \in DOMAIN doc.footnotes)

\* The place of a label among the labels of DefinedSites, by first reference.
FirstReferenceRank(label) ==
    LET first(l) == Least({i \in 1..Len(DefinedSites) : DefinedSites[i].label = l})
    IN Cardinality({l \in {DefinedSites[i].label : i \in 1..Len(DefinedSites)} :
                       first(l) <= first(label)})

----------------------------------------------------------------------------
(* Claims about render. *)

\* C7: when render has returned, ctx.summary, unset at the start, is the
\* flattened text of the first paragraph of the document, in document order,
\* that is not a single-image figure.
C7_SummaryIsFirstPara ==
    (render_pc = "returned" /\ ParasUnder(DocNode(doc.children)) # <<>>) =>
        ctx.summary = Given(get_string_content(ParasUnder(DocNode(doc.children))[1]))

\* C8: when render has returned, ctx.title is the flattened text of the first
\* heading of level 1 of the document, in document order.
C8_TitleIsFirstHeading ==
    (render_pc = "returned" /\ HeadingsUnder(DocNode(doc.children)) # <<>>) =>
        ctx.title = Given(get_string_content(HeadingsUnder(DocNode(doc.children))[1]))

\* C9: at every point of a render pass the footnote index maps exactly the
\* labels with a footnote that were referenced so far onto 1..k in the order
\* of their first reference, and every reference site used the index its
\* label has now; labels with no footnote and footnotes with no reference
\* have no index.
C9_FootnoteIndex ==
    /\ DOMAIN footnoteIndex = {DefinedSites[i].label : i \in 1..Len(DefinedSites)}
    /\ \A i \in 1..Len(DefinedSites) :
          /\ footnoteIndex[DefinedSites[i].label] = FirstReferenceRank(DefinedSites[i].label)
          /\ DefinedSites[i].index = footnoteIndex[DefinedSites[i].label]
    /\ \A i \in 1..Len(sites) : sites[i].label \notin DOMAIN doc.footnotes => sites[i].index = 0

\* C9 witness: b was referenced before a and once more after it, and both
\* have a footnote: b has the index 1, a the index 2.
C9_Witness ==
    /\ render_pc = "returned"
    /\ Len(sites) = 3
    /\ sites[1].label = LabelB /\ sites[2].label = LabelA /\ sites[3].label = LabelB
    /\ DOMAIN doc.footnotes = {LabelA, LabelB}
    /\ footnoteIndex[LabelB] = 1 /\ footnoteIndex[LabelA] = 2

\* C10 as claimed: a document with a video with no destination anywhere in
\* its tree, the bodies of its footnotes included, never renders: the pass
\* does not return.
C10_FailsFastAnywhere ==
    DocHasBrokenVideo(doc) => render_pc # "returned" /\ rendered = NoHtml

\* C10, amended: render raises and returns no fragment exactly when a video
\* with no destination sits where the pass comes by: in the body or in the
\* body of a referenced footnote, and not under a kbd span.
C10_FailsFastWhenReached ==
    /\ render_pc = "returned" => ~ReachesBrokenVideo(DocNode(doc.children), doc.footnotes)
    /\ render_pc = "raised" =>
          /\ ReachesBrokenVideo(DocNode(doc.children), doc.footnotes)
          /\ rendered = NoHtml

\* C10 witness: render raised on a video with no destination that sits in
\* the body of a referenced footnote, none being in the body of the document.
C10_Witness ==
    /\ render_pc = "raised"
    /\ ~HasBrokenVideo(DocNode(doc.children))
    /\ sites # <<>>
    /\ rendered = NoHtml


----------------------------------------------------------------------------
(* Claims about build and estimate_reading_time. *)

\* What this build has put under dist for a document is there after the
\* render of the document has returned, and is whole.
C11_Written ==
    \A p \in DocPaths :
        /\ dist[p] # "partial"
        /\ dist[p] \in {"new", "formatted"} => p \in returned

\* How the file of a document changes in one step of build: ./dist is
\* removed, or a complete temporary file is renamed over the file after the
\* render has returned, or the formatter goes over a file renamed so.
C11_Step ==
    \A p \in DocPaths :
        (build_pc # "idle" /\ dist'[p] # dist[p]) =>
            \/ build_pc = "clean" /\ clean /\ dist'[p] = "absent"
            \/ /\ dist'[p] = "new"
               /\ uf_pc = "written" /\ uf_path = p /\ temp = "complete"
               /\ p \in returned
            \/ build_pc = "fmt" /\ dist[p] = "new" /\ dist'[p] = "formatted"

C12_Ceiling ==
    LET sum == 4 * reading_counts.words + 153 * reading_counts.images
               + 450 * reading_counts.code_blocks
    IN /\ 900 * reading_mins >= sum
       /\ 900 * (reading_mins - 1) < sum

\* No count of the next estimate is under the one before.
C12_CountsGrow ==
    /\ reading_counts'.words >= reading_counts.words
    /\ reading_counts'.images >= reading_counts.images
    /\ reading_counts'.code_blocks >= reading_counts.code_blocks

\* C12. The reading time is ceil(words / 225 + images * 0.17 + code_blocks *
\* 0.5), and it does not fall when a count rises.
C12_ReadingTimeMonotone ==
    [](C12_Ceiling) /\ [][C12_CountsGrow => reading_mins' >= reading_mins]_vars

\* A text of 226 words and nothing else takes two minutes.
C12_Witness ==
    /\ reading_counts = [words |-> 226, images |-> 0, code_blocks |-> 0]
    /\ reading_mins = 2


----------------------------------------------------------------------------
(* Claims about the link override. *)

\* The destination carries a scheme: letters and a colon in front.
HasScheme(destination) ==
    \E i \in 2..Len(destination) :
        destination[i] = ":" /\ \A j \in 1..(i - 1) : destination[j] \in Letters

\* The destination is root-relative, fragment-relative, relative or bare.
IsInternalDestination(destination) ==
    \/ StartsWith(destination, <<"/">>)
    \/ StartsWith(destination, <<"#">>)
    \/ StartsWith(destination, <<".", "/">>)
    \/ StartsWith(destination, <<".", ".", "/">>)
    \/ ~HasScheme(destination)

\* The link of a document of one link.
TheLink(d) == d.children[1].children[1]

\* The class attribute written for the link, as a list of classes; none when
\* no class attribute is written.
WrittenClasses ==
    LET at == {i \in 1..Len(written) : written[i] = " class=\""}
    IN IF at = {} THEN <<>>
       ELSE LET from == Least(at)
                to == Least({j \in (from + 1)..Len(written) : written[j] = "\""})
            IN Split(SubSeq(written, from + 1, to - 1), " ")

\* C13. The link override adds the internal-link class exactly when the
\* destination is root-relative, fragment-relative, relative, or bare with
\* no scheme; a destination with a scheme (http, https or any other, such as
\* mailto:) is left without the class.
C13_InternalLinkClass ==
    (render_pc = "returned" /\ doc \in LinkDocs /\ TheLink(doc).destination.defined) =>
        ((\E i \in 1..Len(WrittenClasses) : WrittenClasses[i] = InternalLink)
            <=> IsInternalDestination(TheLink(doc).destination.value))


----------------------------------------------------------------------------
(* Claims about the re-splitting, the grammar path, parse_highlight_spec and the console path. *)

\* The offsets of the line breaks of s, in rising order.
NewlinesOf(s) ==
    LET at == {i \in 0..(Len(s) - 1) : s[i + 1] = "\n"}
    IN [k \in 1..Cardinality(at) |->
          CHOOSE i \in at : Cardinality({j \in at : j < i}) = k - 1]

\* The tags <span ...> of s that are open at the offset m, in the order they
\* were opened: a tag is closed by the first </span> after it that has more
\* </span> than <span ...> between the two.
OpenTagsAt(s, m) ==
    LET opens == {o \in 0..(m - 1) : OpenTagEnd(s, o) # -1}
        closes == {c \in 0..(m - 1) : MatchAt(s, c, CloseSpan)}
        closed(o) ==
            \E c \in closes :
                /\ o < c
                /\ Cardinality({d \in closes : o < d /\ d <= c})
                       > Cardinality({p \in opens : o < p /\ p < c})
        open == {o \in opens : ~closed(o)}
    IN [k \in 1..Cardinality(open) |->
          LET o == CHOOSE i \in open : Cardinality({j \in open : j < i}) = k - 1
          IN Slice(s, o, OpenTagEnd(s, o))]

\* What the re-splitting makes of the merged HTML: the text and the line
\* breaks are kept, every line is balanced, and at each line break the spans
\* open there are closed before it and opened again, in their order, after it.
Resplitted(before, after) ==
    /\ StripTags(after) = StripTags(before)
    /\ Len(NewlinesOf(after)) = Len(NewlinesOf(before))
    /\ \A l \in 1..Len(Split(after, "\n")) : SpansBalanced(Split(after, "\n")[l])
    /\ \A k \in 1..Len(NewlinesOf(after)) :
          LET n == NewlinesOf(after)[k]
              tags == OpenTagsAt(before, NewlinesOf(before)[k])
          IN /\ EndsWith(Slice(after, 0, n), Repeat(CloseSpan, Len(tags)))
             /\ StartsWith(SliceFrom(after, n + 1), Concat(tags))
             /\ OpenTagsAt(after, n) = <<>>
             /\ OpenTagsAt(after, n + 1 + Len(Concat(tags))) = tags

\* C14. After the re-splitting every physical line of the highlighted HTML
\* is closed by itself: at each line break every span open there is closed
\* before the break and the same spans are opened again, in the same order,
\* right after it, so each line alone has balanced span tags.
C14_LinesClosed ==
    [][(hl_pc = "resplit" /\ hl_pc' = "wrap")
          => Resplitted(TrimEnd(highlighted), highlighted')]_vars

\* The re-splitting has met a line break inside two spans.
C14_Witness ==
    /\ hl_pc = "wrap"
    /\ \E n \in 0..(Len(highlighted) - 1) :
          /\ highlighted[n + 1] = "\n"
          /\ EndsWith(Slice(highlighted, 0, n), Repeat(CloseSpan, 2))
          /\ Len(OpenTagsAt(highlighted, Len(highlighted))) = 0
          /\ \E t, u \in 1..Len(tokens) :
                StartsWith(SliceFrom(highlighted, n + 1),
                           OpenSpan(tokens[t].class) \o OpenSpan(tokens[u].class))


\* The place of the first event of the kind for the token among the events
\* of the grammar path.
EventAt(kind, token) ==
    LET events == Overlay(src, tokens).events
    IN Least({e \in 1..Len(events) : events[e] = [kind |-> kind, token |-> token]})

\* The range of a fully contains the range of b, and is not the same range.
Contains(a, b) ==
    /\ a.start <= b.start /\ b.end <= a.end
    /\ a.start # b.start \/ a.end # b.end

\* The span of a is opened before and closed after the span of b.
Around(a, b) ==
    /\ EventAt("open", a) < EventAt("open", b)
    /\ EventAt("close", b) < EventAt("close", a)

\* C15 as stated: on the grammar path, for any two captures A and B where
\* the range of A fully contains the range of B, the span of A is opened
\* before the span of B and closed after it.
C15_OuterContains ==
    branch = "grammar" =>
        \A i, j \in 1..Len(tokens) : Contains(tokens[i], tokens[j]) => Around(tokens[i], tokens[j])

\* C15, amended: the same for the captures B that begin before A ends, which
\* leaves out the empty range at the very end of A.
C15_OuterContainsInside ==
    branch = "grammar" =>
        \A i, j \in 1..Len(tokens) :
            (Contains(tokens[i], tokens[j]) /\ tokens[j].start < tokens[i].end)
                => Around(tokens[i], tokens[j])

\* Two captures that begin together, the longer around the shorter.
C15_Witness ==
    /\ branch = "grammar"
    /\ hl_pc = "resplit"
    /\ Len(tokens) = 2
    /\ tokens[1].start = tokens[2].start
    /\ tokens[2].end < tokens[1].end
    /\ tokens[2].start < tokens[2].end
    /\ Around(tokens[1], tokens[2])


\* The two captures overlap in part: b begins inside a and ends behind it.
Overlaps(a, b) == a.start < b.start /\ b.start < a.end /\ a.end < b.end

\* C16. On the grammar path a capture that begins behind the cursor, as
\* arises with captures that overlap, is skipped and opens no span: of two
\* captures that overlap in part the first alone has a span.
C16_OverlapSkipped ==
    (branch = "grammar" /\ hl_pc = "resplit") =>
        \A i, j \in 1..Len(tokens) :
            Overlaps(tokens[i], tokens[j]) =>
                /\ Overlay(src, tokens).skipped > 0
                /\ \A e \in 1..Len(Overlay(src, tokens).events) :
                      Overlay(src, tokens).events[e] # [kind |-> "open", token |-> tokens[j]]

\* C17. On the grammar path, for every source and every set of captures, the
\* cursor never moves backwards, and the output without its tags is the
\* escaped source: every character once, in order.
C17_CursorForward ==
    (branch = "grammar" /\ hl_pc = "resplit") =>
        LET trace == Overlay(src, tokens).trace
        IN /\ \A k \in 1..(Len(trace) - 1) : trace[k] <= trace[k + 1]
           /\ StripTags(highlighted) = EscapeHtml(src)

\* A part of a highlight_spec, between commas and hyphens, is no number.
HasNonNumericToken(hs) ==
    /\ hs.defined
    /\ \E e \in 1..Len(Split(hs.value, ",")) :
          LET parts == Split(Split(hs.value, ",")[e], "-")
          IN \E p \in 1..Len(parts) :
                \/ TrimStart(parts[p]) = <<>>
                \/ \E c \in 1..Len(TrimStart(parts[p])) : TrimStart(parts[p])[c] \notin Digits

\* C18. For a highlight_spec with a token that is no number the parsing
\* raises no error and gives the empty set, so no output line is marked
\* hl-line.
C18_NonNumericIsEmpty ==
    (hl_pc = "done" /\ HasNonNumericToken(highlight_spec)) =>
        /\ result.status = "returned"
        /\ \A n \in 1..Len(OutputLines) :
              ~Includes(spec, n) /\ ~IsHlLine(OutputLines[n])

\* C19. On the console path every line is classified and wrapped by itself:
\* its rendering is that of the line alone, whatever the lines before it.
C19_LinesIndependent ==
    (branch = "console" /\ hl_pc = "resplit") =>
        LET ls == Split(TrimEnd(src), "\n")
        IN highlighted =
              Html(<<"\n">> \o Spaces(4),
                   HtmlValue(Concat([k \in 1..Len(ls) |-> ConsoleLine(ls[k], FALSE).html])),
                   <<"\n">> \o Spaces(2))


----------------------------------------------------------------------------
(* Claims about the current section. *)

RECURSIVE AnchorsUnder(_, _)
\* The anchors of the headings of a level over 1 at or under a node, in
\* document order: each the id of the innermost section around the heading,
\* id for a heading with no section around it under the node.
AnchorsUnder(node, id) ==
    IF node.tag = "heading" THEN (IF node.level > 1 THEN <<id>> ELSE <<>>)
    ELSE Concat([i \in 1..Len(node.children) |->
                    AnchorsUnder(node.children[i], IF node.tag = "section" THEN node.id ELSE id)])

\* The anchors written for the headings of a level over 1, in the order of
\* the output; the empty id for a heading written with no anchor.
WrittenAnchors ==
    LET heads == {i \in 1..Len(written) : written[i] \in {"\n<h" \o ToString(l) \o ">" : l \in 2..6}}
        anchor(i) ==
            IF i < Len(written) /\ written[i + 1] = "<a href=\"#"
            THEN SubSeq(written, i + 2,
                        Least({j \in (i + 2)..Len(written) : written[j] = "\">"}) - 1)
            ELSE <<>>
    IN [k \in 1..Cardinality(heads) |->
          anchor(CHOOSE i \in heads : Cardinality({j \in heads : j < i}) = k - 1)]

\* C20. The current section is saved and restored around every section: when
\* render has returned it is what it was at the start, and every heading of
\* a level over 1 has taken its anchor from the innermost section around it,
\* and none when no section is around it.
C20_SectionRestored ==
    render_pc = "returned" =>
        /\ section = NoNode
        /\ WrittenAnchors = AnchorsUnder(DocNode(doc.children), <<>>)

\* A heading behind a nested section has taken the id of the outer section.
C20_Witness ==
    /\ render_pc = "returned"
    /\ WrittenAnchors = <<<<"A">>, <<"B">>, <<"A">>>>


----------------------------------------------------------------------------
(* Claims about the footnote table. *)

\* C21. Rendering leaves the footnote table of the document and the nodes in
\* it as they were: a footnote referenced twice renders the same body at both
\* sites, whatever the body holds.
C21_FootnotesReadOnly ==
    render_pc = "returned" =>
        /\ documentSideNotes = doc.footnotes
        /\ \A i, j \in 1..Len(sites) : sites[i].label = sites[j].label => sites[i].body = sites[j].body

\* C22. render comes to an end for every document and footnote table, with
\* work bounded by their size: a footnote is rendered inside itself at no
\* depth, so the references that wait for their footnote are never more than
\* the footnotes of the table, and the call stack is never exhausted.
C22_RenderBounded ==
    /\ Nesting(stack) <= Cardinality(DOMAIN doc.footnotes)
    /\ render_pc # "overflow"

----------------------------------------------------------------------------
(* Claims about the table of contents. *)

\* The runs of white space of a text that have a character on either side.
InnerSpaceRuns(t) ==
    Cardinality({i \in 2..Len(t) :
                    /\ IsSpace(t[i]) /\ ~IsSpace(t[i - 1])
                    /\ \E j \in (i + 1)..Len(t) : ~IsSpace(t[j])})

HyphensOf(t) == Cardinality({i \in 1..Len(t) : IsHyphen(t[i])})

\* The words of a text: its longest runs of characters that are not white
\* space, in order.
WordsOf(t) ==
    LET starts == {i \in 1..Len(t) : ~IsSpace(t[i]) /\ (i = 1 \/ IsSpace(t[i - 1]))}
        nth(k) == CHOOSE i \in starts : Cardinality({j \in starts : j < i}) = k - 1
        end(i) == Greatest({j \in i..Len(t) : \A k \in i..j : ~IsSpace(t[k])})
    IN [k \in 1..Cardinality(starts) |-> SubSeq(t, nth(k), end(nth(k)))]

\* The slug is made of word characters and hyphens, with no two hyphens in a
\* row and none at either end.
WellShaped(slug) ==
    /\ \A i \in 1..Len(slug) : IsWord(slug[i]) \/ IsHyphen(slug[i])
    /\ \A i \in 1..(Len(slug) - 1) : ~(IsHyphen(slug[i]) /\ IsHyphen(slug[i + 1]))
    /\ slug # <<>> => ~IsHyphen(slug[1]) /\ ~IsHyphen(slug[Len(slug)])

\* C23 as claimed: every slug of a heading of level 2 or more is well shaped,
\* and each run of white space inside the text of the heading has become a
\* hyphen of the slug.
C23_SlugOfEveryRun ==
    \A i \in 1..Len(headings) :
        /\ WellShaped(headings[i].id)
        /\ HyphensOf(headings[i].id) >= InnerSpaceRuns(headings[i].title)

\* C23, amended: every slug of a heading of level 2 or more is well shaped;
\* when the text of the heading is made of word characters and white space
\* alone, the slug is its words joined by single hyphens. White space next to
\* a hyphen or to a removed character merges with it, or is stripped.
C23_SlugOfWords ==
    \A i \in 1..Len(headings) :
        /\ headings[i].level > 1
        /\ WellShaped(headings[i].id)
        /\ (\A k \in 1..Len(headings[i].title) :
                IsWord(headings[i].title[k]) \/ IsSpace(headings[i].title[k]))
           => headings[i].id = Join(WordsOf(headings[i].title), <<"-">>)

\* C23 witness: the table holds a heading of two words with white space of
\* two characters between them, and its slug has one hyphen.
C23_Witness ==
    /\ toc_pc = "returned"
    /\ Len(headings) = 1
    /\ headings[1].title = <<"a", " ", "\n", "_">>
    /\ headings[1].id = <<"a", "-", "_">>

----------------------------------------------------------------------------
(* Claims about the build and watch commands. *)

\* C24. In the build and watch commands initTreeSitter has returned before
\* the first call of highlight: no call of highlight of a build reads an
\* uninitialised registry.
C24_InitBeforeHighlight ==
    /\ observed \subseteq {TRUE}
    /\ running > 0 => initialized

\* C24 witness: a rebuild of the watch command has called highlight.
C24_Witness ==
    /\ command = "watch"
    /\ build_id = 2
    /\ hl_calls = 1
    /\ observed = {TRUE}

\* C25. In watch mode at most one build runs at any time: the loop starts a
\* build only when none runs.
C25_OneBuildAtATime ==
    /\ running <= 1
    /\ LoopRunnable => running = 0

\* C25 witness: a change is signalled while the second build runs.
C25_Witness ==
    /\ command = "watch"
    /\ running = 1
    /\ build_id = 2
    /\ signal = "true"

\* C26. In watch mode no change is lost: a debounced callback that fires is
\* followed by the start of a build.
C26_NoChangeLost == owed ~> ~owed

\* Nothing is left to run: no timer is set, no build runs, no continuation
\* is due.
Quiet == ~timer /\ running = 0 /\ ~LoopRunnable

\* C27. In watch mode, once Deno.watchFs has ended, no build starts beyond
\* those asked for before, and the loop has ended when nothing is left to
\* run: it does not wait on a signal that nothing resolves.
C27_LoopTerminates ==
    watcher = "ended" =>
        /\ build_id <= allowed
        /\ (Quiet /\ main_pc # "crashed") => loop_pc = "exited"

----------------------------------------------------------------------------
(* Claims about the containers. *)

\* The element a piece of the HTML opens or closes, among those that
\* overrides.div writes; "" for any other piece.
OpenedBy(piece) ==
    CASE piece = "<aside" -> "aside"
      [] piece \in {"<div", "<div>", "<div class=\"title\">"} -> "div"
      [] piece = "<details>" -> "details"
      [] piece = "<summary>" -> "summary"
      [] OTHER -> ""

ClosedBy(piece) ==
    CASE piece = "</aside>" -> "aside"
      [] piece = "</div>" -> "div"
      [] piece = "</details>" -> "details"
      [] piece = "</summary>" -> "summary"
      [] OTHER -> ""

RECURSIVE OpenElements(_, _)
\* The elements left open behind the pieces, innermost last, read from the
\* elements open before them; <<"unbalanced">> once a closing tag does not
\* close the innermost open element.
OpenElements(pieces, open) ==
    IF pieces = <<>> \/ open = <<"unbalanced">> THEN open
    ELSE LET piece == Head(pieces)
         IN IF OpenedBy(piece) # "" THEN OpenElements(Tail(pieces), Append(open, OpenedBy(piece)))
            ELSE IF ClosedBy(piece) = "" THEN OpenElements(Tail(pieces), open)
            ELSE IF open # <<>> /\ open[Len(open)] = ClosedBy(piece)
                 THEN OpenElements(Tail(pieces), SubSeq(open, 1, Len(open) - 1))
            ELSE <<"unbalanced">>

\* C28. Every element that overrides.div opens is closed within its own
\* output: the HTML of an admonition, a block, a details or a plain div has
\* balanced opening and closing tags around the children.
C28_DivBalanced ==
    (render_pc = "returned" /\ doc \in DivDocs) => OpenElements(written, <<>>) = <<>>

============================================================================
